---- MODULE Spec2Model ----
(***************************************************************************)
(* The metrics registry of codahale/metrics: counters, gauges, batch       *)
(* initializers and windowed histograms, each namespace behind its own     *)
(* mutex, with the rotator goroutine.  Every exported function is a call   *)
(* of a thread: it starts from "idle", takes one step per lock operation   *)
(* and per critical-section body, and hands its result to the caller,      *)
(* who keeps it in log.                                                    *)
(***************************************************************************)
EXTENDS Integers, Sequences, FiniteSets, Bags, TLC

VARIABLES
  counters,    \* map[string]uint64
  gauges,      \* map[string]func() float64
  inits,       \* map[interface{}]func()
  histograms,  \* map[string]*Histogram
  heap,        \* the Histogram objects, by address
  cm, gm, hm,  \* sync.Mutex: the set of holders ({} when free)
  rw,          \* Histogram.rw by address: writers and readers
  pc,          \* each thread's position
  frame,       \* each thread's arguments and locals
  log,         \* what each caller got back, call by call
  runtime,     \* the Go runtime's live MemStats
  msg,         \* the memStatGauges objects
  test         \* the driver's own variables

vars == <<counters, gauges, inits, histograms, heap, cm, gm, hm, rw,
          pc, frame, log, runtime, msg, test>>

registry == <<counters, gauges, inits, histograms>>
locks    == <<cm, gm, hm, rw>>
world    == <<runtime, msg, test>>

----------------------------------------------------------------------------
\* Bounds of the model.

\* uint64 scaled down: counters are UintBits wide.
UintBits == 5
\* Calls the caller makes in SpecCounter, SpecGauge, SpecRegistry, SpecHist,
\* SpecRecord.
MaxCalls == 4
MaxGaugeCalls == 3
MaxRegistryCalls == 4
MaxHistCalls == 4
MaxRecordCalls == 4
MaxWindowCalls == 3
\* Calls of the caller and of the recorder in SpecConcurrent.
MaxConcCalls == 2
MaxRecords == 2
\* Calls the caller makes in SpecDetach.
MaxDetachCalls == 5
\* Calls the caller makes in SpecFresh.
MaxFreshCalls == 4
\* Calls of each of the two callers in SpecLocks.
MaxLockCalls == 1
\* Garbage collections and rotator ticks.
MaxGC == 1
MaxTicks == 1
\* The exploring callers' histograms track 1 .. HistMax.
HistMax == 2
\* The concurrent writers of SpecWriters and the calls each makes.
NumWriters == 2
CallsPerWriter == 2
\* The largest AddN argument of SpecWriters and the largest prior value.
MaxDelta == 3
MaxPrior == 2

Modulus == 2 ^ UintBits
UintMax == Modulus - 1

CounterNames == {"whee", "test1"}

----------------------------------------------------------------------------
\* Go maps.

EmptyMap == [x \in {} |-> 0]

MapPut(m, k, v) == [x \in (DOMAIN m) \cup {k} |-> IF x = k THEN v ELSE m[x]]

\* m[k] of a map[string]uint64: the zero value when k is absent.
MapGet(m, k) == IF k \in DOMAIN m THEN m[k] ELSE 0

\* The rotator goroutine's thread id; callers are 1, 2, ...
Rotator == 0

----------------------------------------------------------------------------
\* Calls and returns.

Goto(t, l) == pc' = [pc EXCEPT ![t] = l]

\* A call starts: the arguments go to the thread's frame.
Enter(t, l, f) ==
  /\ pc[t] = "idle"
  /\ pc' = [pc EXCEPT ![t] = l]
  /\ frame' = [frame EXCEPT ![t] = f]

\* A call returns: the caller gets e.  The exploring callers keep every
\* result; TestHistogram keeps the last one only.
Return(t, e) ==
  /\ pc' = [pc EXCEPT ![t] = "idle"]
  /\ log' = [log EXCEPT ![t] = IF test.mode = "TestHistogram"
                                 THEN <<e>> ELSE Append(@, e)]

----------------------------------------------------------------------------
\* Counter.Add, Counter.AddN, Counters.

\* A map a caller holds is a reference to a map object: ref names the
\* object.  "copy" is the map Counters or Gauges made for the call,
\* "counters" the package's counters map, "old" a map the package has let
\* go of.
Aliases(e) == e.op = "Counters" /\ e.ref = "counters"

NoAlias == \A t \in DOMAIN log : \A i \in 1 .. Len(log[t]) : ~Aliases(log[t][i])

\* The callers' maps after a write that leaves the counters map as c.
WrittenThrough(c) ==
  IF NoAlias THEN log
  ELSE [t \in DOMAIN log |->
          [i \in 1 .. Len(log[t]) |->
             IF Aliases(log[t][i]) THEN [log[t][i] EXCEPT !.ret = c]
             ELSE log[t][i]]]

\* The callers' maps after the package replaced its counters map by a new
\* one.
Replaced ==
  IF NoAlias THEN log
  ELSE [t \in DOMAIN log |->
          [i \in 1 .. Len(log[t]) |->
             IF Aliases(log[t][i]) THEN [log[t][i] EXCEPT !.ref = "old"]
             ELSE log[t][i]]]

CallAdd(t, c) ==
  /\ Enter(t, "AddN_lock", [op |-> "Add", c |-> c, delta |-> 1, tmp |-> 0])
  /\ UNCHANGED <<registry, heap, locks, log, world>>

CallAddN(t, c, delta) ==
  /\ Enter(t, "AddN_lock", [op |-> "AddN", c |-> c, delta |-> delta, tmp |-> 0])
  /\ UNCHANGED <<registry, heap, locks, log, world>>

\* AddN without the mutex: the increment is not exclusive.
AddNLock_NoMutex(t) ==
  /\ pc[t] = "AddN_lock"
  /\ cm' = cm \cup {t}
  /\ Goto(t, "AddN_load")
  /\ UNCHANGED <<registry, heap, gm, hm, rw, frame, log, world>>

AddNLock(t) ==
  /\ pc[t] = "AddN_lock"
  /\ cm = {}
  /\ cm' = {t}
  /\ Goto(t, "AddN_load")
  /\ UNCHANGED <<registry, heap, gm, hm, rw, frame, log, world>>

\* counters[c] += delta, the read ...
AddNLoad(t) ==
  /\ pc[t] = "AddN_load"
  /\ frame' = [frame EXCEPT ![t].tmp = MapGet(counters, frame[t].c)]
  /\ Goto(t, "AddN_store")
  /\ UNCHANGED <<registry, heap, locks, log, world>>

\* AddN that assigns instead of adding.
AddNStore_Assign(t) ==
  /\ pc[t] = "AddN_store"
  /\ counters' = MapPut(counters, frame[t].c, frame[t].delta % Modulus)
  /\ log' = WrittenThrough(counters')
  /\ Goto(t, "AddN_unlock")
  /\ UNCHANGED <<gauges, inits, histograms, heap, locks, frame, world>>

\* ... and the write, in uint64 arithmetic.  A Go map is a reference: the
\* write shows through every reference to the counters map.
AddNStore(t) ==
  /\ pc[t] = "AddN_store"
  /\ counters' = MapPut(counters, frame[t].c,
                        (frame[t].tmp + frame[t].delta) % Modulus)
  /\ log' = WrittenThrough(counters')
  /\ Goto(t, "AddN_unlock")
  /\ UNCHANGED <<gauges, inits, histograms, heap, locks, frame, world>>

AddNUnlock(t) ==
  /\ pc[t] = "AddN_unlock"
  /\ cm' = cm \ {t}
  /\ Return(t, IF frame[t].op = "Add"
               THEN [op |-> "Add", c |-> frame[t].c]
               ELSE [op |-> "AddN", c |-> frame[t].c, delta |-> frame[t].delta])
  /\ UNCHANGED <<registry, heap, gm, hm, rw, frame, world>>

CallCounters(t) ==
  /\ Enter(t, "Counters_lock", [op |-> "Counters", c |-> EmptyMap])
  /\ UNCHANGED <<registry, heap, locks, log, world>>

CountersLock(t) ==
  /\ pc[t] = "Counters_lock"
  /\ cm = {}
  /\ cm' = {t}
  /\ Goto(t, "Counters_copy")
  /\ UNCHANGED <<registry, heap, gm, hm, rw, frame, log, world>>

CountersCopy(t) ==
  /\ pc[t] = "Counters_copy"
  /\ frame' = [frame EXCEPT ![t].c = [n \in DOMAIN counters |-> counters[n]]]
  /\ Goto(t, "Counters_unlock")
  /\ UNCHANGED <<registry, heap, locks, log, world>>

\* Counters returning the package's map, return counters.
CountersUnlock_ReturnInternal(t) ==
  /\ pc[t] = "Counters_unlock"
  /\ cm' = cm \ {t}
  /\ Return(t, [op |-> "Counters", ret |-> counters, ref |-> "counters"])
  /\ UNCHANGED <<registry, heap, gm, hm, rw, frame, world>>

\* return c, the map made for this call, and the deferred cm.Unlock().
CountersUnlock(t) ==
  /\ pc[t] = "Counters_unlock"
  /\ cm' = cm \ {t}
  /\ Return(t, [op |-> "Counters", ret |-> frame[t].c, ref |-> "copy"])
  /\ UNCHANGED <<registry, heap, gm, hm, rw, frame, world>>

CounterSteps(t) ==
  \/ AddNLock(t)
  \/ AddNLoad(t)
  \/ AddNStore(t)
  \/ AddNUnlock(t)
  \/ CountersLock(t)
  \/ CountersCopy(t)
  \/ CountersUnlock(t)

----------------------------------------------------------------------------
\* Gauge names.  Go builds a quantile gauge's name as name + ".P50"; the
\* model keeps a name as <<base, suffix>>, the suffix "" for a plain name,
\* so that a caller can also name the gauge "heyo.P50" itself.

GaugeName(base, sfx) == <<base, sfx>>

\* The six SetBatchFunc statements of NewHistogram, the quantile in
\* thousandths (50 is 500, 99.9 is 999).
QuantileGauges ==
  << [sfx |-> "P50",  q |-> 500], [sfx |-> "P75",  q |-> 750],
     [sfx |-> "P90",  q |-> 900], [sfx |-> "P95",  q |-> 950],
     [sfx |-> "P99",  q |-> 990], [sfx |-> "P999", q |-> 999] >>

----------------------------------------------------------------------------
\* hdr.WindowedHistogram, as the specification describes it: one current
\* bucket set and a ring of the n most recently rotated ones.  A bucket set
\* is a bag of values; the model's values are exactly representable at the
\* configured precision, so a value's bucket is the value.

HdrNewWindowedHistogram(n, minValue, maxValue) ==
  [n |-> n, minValue |-> minValue, maxValue |-> maxValue,
   Current |-> EmptyBag, Window |-> <<>>]

HdrInRange(w, v) == w.minValue <= v /\ v <= w.maxValue

HdrRecordValue(w, v) ==
  IF HdrInRange(w, v) THEN [w EXCEPT !.Current = @ (+) SetToBag({v})] ELSE w

HdrRotate(w) ==
  LET pushed == Append(w.Window, w.Current)
  IN  [w EXCEPT !.Window = IF Len(pushed) > w.n THEN Tail(pushed) ELSE pushed,
                !.Current = EmptyBag]

RECURSIVE HdrSum(_)
HdrSum(slices) ==
  IF slices = <<>> THEN EmptyBag ELSE Head(slices) (+) HdrSum(Tail(slices))

HdrMerge(w) == w.Current (+) HdrSum(w.Window)

\* The scan of the merged buckets in ascending order, up to the first one
\* at which the running count reaches q thousandths of the total.
RECURSIVE HdrScan(_, _, _, _)
HdrScan(B, vals, acc, need) ==
  IF vals = {} THEN 0
  ELSE LET v == CHOOSE x \in vals : \A y \in vals : x <= y
           a == acc + CopiesIn(v, B)
       IN  IF a * 1000 >= need THEN v ELSE HdrScan(B, vals \ {v}, a, need)

HdrValueAtQuantile(B, q) == HdrScan(B, BagToSet(B), 0, q * BagCardinality(B))

\* hdr.NewWindowedHistogram(5, ...): the window length NewHistogram passes.
WindowLen == 5

----------------------------------------------------------------------------
\* Evaluators and initializers: the closures the maps hold.
\*   const    func() float64 { return value }         (Gauge.Set)
\*   func     a caller's closure reading live state   (Gauge.SetFunc)
\*   stat     msg.numGC of a memStatGauges object     (runtime/gc.go)
\*   valueAt  hist.valueAt(q)                         (NewHistogram)
\* and the initializers msg.init and hist.merge.

ConstFn(v) == [kind |-> "const", a |-> v, b |-> 0]
LiveFn(k) == [kind |-> "func", a |-> k, b |-> 0]
StatFn(o) == [kind |-> "stat", a |-> o, b |-> 0]
ValueAtFn(h, q) == [kind |-> "valueAt", a |-> h, b |-> q]
MsgInit(o) == [kind |-> "msg", a |-> o]
MergeInit(h) == [kind |-> "merge", a |-> h]

\* What an evaluator returns in a given world.
Eval(f, rt, ms, hp) ==
  CASE f.kind = "const" -> f.a
    [] f.kind = "func" -> rt.NumGC + f.a
    [] f.kind = "stat" -> ms[f.a].stats.NumGC
    [] f.kind = "valueAt" ->
         IF hp[f.a].hasM THEN HdrValueAtQuantile(hp[f.a].m, f.b) ELSE 0

----------------------------------------------------------------------------
\* Gauge.Set, Gauge.SetFunc, Gauge.SetBatchFunc.

CallSet(t, g, v) ==
  /\ Enter(t, "Set_lock", [op |-> "Set", g |-> g, v |-> v])
  /\ UNCHANGED <<registry, heap, locks, log, world>>

SetLock(t) ==
  /\ pc[t] = "Set_lock"
  /\ gm = {}
  /\ gm' = {t}
  /\ Goto(t, "Set_store")
  /\ UNCHANGED <<registry, heap, cm, hm, rw, frame, log, world>>

\* Set that leaves a gauge that already has an evaluator alone.
SetStore_KeepExisting(t) ==
  /\ pc[t] = "Set_store"
  /\ gauges' = IF frame[t].g \in DOMAIN gauges THEN gauges
               ELSE MapPut(gauges, frame[t].g, ConstFn(frame[t].v))
  /\ Goto(t, "Set_unlock")
  /\ UNCHANGED <<counters, inits, histograms, heap, locks, frame, log, world>>

SetStore(t) ==
  /\ pc[t] = "Set_store"
  /\ gauges' = MapPut(gauges, frame[t].g, ConstFn(frame[t].v))
  /\ Goto(t, "Set_unlock")
  /\ UNCHANGED <<counters, inits, histograms, heap, locks, frame, log, world>>

SetUnlock(t) ==
  /\ pc[t] = "Set_unlock"
  /\ gm' = gm \ {t}
  /\ Return(t, [op |-> "Set", g |-> frame[t].g, f |-> ConstFn(frame[t].v)])
  /\ UNCHANGED <<registry, heap, cm, hm, rw, frame, world>>

CallSetFunc(t, g, f) ==
  /\ Enter(t, "SetFunc_lock", [op |-> "SetFunc", g |-> g, f |-> f])
  /\ UNCHANGED <<registry, heap, locks, log, world>>

SetFuncLock(t) ==
  /\ pc[t] = "SetFunc_lock"
  /\ gm = {}
  /\ gm' = {t}
  /\ Goto(t, "SetFunc_store")
  /\ UNCHANGED <<registry, heap, cm, hm, rw, frame, log, world>>

SetFuncStore(t) ==
  /\ pc[t] = "SetFunc_store"
  /\ gauges' = MapPut(gauges, frame[t].g, frame[t].f)
  /\ Goto(t, "SetFunc_unlock")
  /\ UNCHANGED <<counters, inits, histograms, heap, locks, frame, log, world>>

SetFuncUnlock(t) ==
  /\ pc[t] = "SetFunc_unlock"
  /\ gm' = gm \ {t}
  /\ Return(t, [op |-> "SetFunc", g |-> frame[t].g, f |-> frame[t].f])
  /\ UNCHANGED <<registry, heap, cm, hm, rw, frame, world>>

CallSetBatchFunc(t, g, key, init, f) ==
  /\ Enter(t, "SetBatchFunc_lock",
           [op |-> "SetBatchFunc", g |-> g, key |-> key, init |-> init, f |-> f])
  /\ UNCHANGED <<registry, heap, locks, log, world>>

SetBatchFuncLock(t) ==
  /\ pc[t] = "SetBatchFunc_lock"
  /\ gm = {}
  /\ gm' = {t}
  /\ Goto(t, "SetBatchFunc_store")
  /\ UNCHANGED <<registry, heap, cm, hm, rw, frame, log, world>>

\* SetBatchFunc with both assignments inside the if: only a key's first
\* gauge is installed.
SetBatchFuncStore_InsideIf(t) ==
  /\ pc[t] = "SetBatchFunc_store"
  /\ gauges' = IF frame[t].key \in DOMAIN inits THEN gauges
               ELSE MapPut(gauges, frame[t].g, frame[t].f)
  /\ inits' = IF frame[t].key \in DOMAIN inits THEN inits
              ELSE MapPut(inits, frame[t].key, frame[t].init)
  /\ Goto(t, "SetBatchFunc_unlock")
  /\ UNCHANGED <<counters, histograms, heap, locks, frame, log, world>>

\* SetBatchFunc replacing the key's initializer, inits[key] = init.
SetBatchFuncStore_LastWins(t) ==
  /\ pc[t] = "SetBatchFunc_store"
  /\ gauges' = MapPut(gauges, frame[t].g, frame[t].f)
  /\ inits' = MapPut(inits, frame[t].key, frame[t].init)
  /\ Goto(t, "SetBatchFunc_unlock")
  /\ UNCHANGED <<counters, histograms, heap, locks, frame, log, world>>

\* gauges[string(g)] = f; if _, ok := inits[key]; !ok { inits[key] = init }
SetBatchFuncStore(t) ==
  /\ pc[t] = "SetBatchFunc_store"
  /\ gauges' = MapPut(gauges, frame[t].g, frame[t].f)
  /\ inits' = IF frame[t].key \in DOMAIN inits THEN inits
              ELSE MapPut(inits, frame[t].key, frame[t].init)
  /\ Goto(t, "SetBatchFunc_unlock")
  /\ UNCHANGED <<counters, histograms, heap, locks, frame, log, world>>

\* Back to the caller, or to NewHistogram's next statement.
SetBatchFuncUnlock(t) ==
  /\ pc[t] = "SetBatchFunc_unlock"
  /\ gm' = gm \ {t}
  /\ IF frame[t].op = "NewHistogram"
     THEN /\ Goto(t, "NewHistogram_gauge")
          /\ frame' = [frame EXCEPT ![t].k = @ + 1]
          /\ UNCHANGED log
     ELSE /\ Return(t, [op |-> "SetBatchFunc", g |-> frame[t].g,
                        key |-> frame[t].key, init |-> frame[t].init,
                        f |-> frame[t].f])
          /\ UNCHANGED frame
  /\ UNCHANGED <<registry, heap, cm, hm, rw, world>>

SetSteps(t) ==
  \/ SetLock(t)
  \/ SetStore(t)
  \/ SetUnlock(t)
  \/ SetFuncLock(t)
  \/ SetFuncStore(t)
  \/ SetFuncUnlock(t)

SetBatchFuncSteps(t) ==
  \/ SetBatchFuncLock(t)
  \/ SetBatchFuncStore(t)
  \/ SetBatchFuncUnlock(t)

----------------------------------------------------------------------------
\* Reset.

CallReset(t) ==
  /\ Enter(t, "Reset_cm", [op |-> "Reset"])
  /\ UNCHANGED <<registry, heap, locks, log, world>>

ResetLockCm(t) ==
  /\ pc[t] = "Reset_cm"
  /\ cm = {}
  /\ cm' = {t}
  /\ Goto(t, "Reset_gm")
  /\ UNCHANGED <<registry, heap, gm, hm, rw, frame, log, world>>

ResetLockGm(t) ==
  /\ pc[t] = "Reset_gm"
  /\ gm = {}
  /\ gm' = {t}
  /\ Goto(t, "Reset_hm")
  /\ UNCHANGED <<registry, heap, cm, hm, rw, frame, log, world>>

ResetLockHm(t) ==
  /\ pc[t] = "Reset_hm"
  /\ hm = {}
  /\ hm' = {t}
  /\ Goto(t, "Reset_body")
  /\ UNCHANGED <<registry, heap, cm, gm, rw, frame, log, world>>

\* Reset as the variant without batch initializers has it: inits is kept.
ResetBody_KeepInits(t) ==
  /\ pc[t] = "Reset_body"
  /\ counters' = EmptyMap
  /\ gauges' = EmptyMap
  /\ histograms' = EmptyMap
  /\ log' = Replaced
  /\ Goto(t, "Reset_unlock")
  /\ UNCHANGED <<inits, heap, locks, frame, world>>

\* Reset that leaves the histograms map as it is.
ResetBody_KeepHistograms(t) ==
  /\ pc[t] = "Reset_body"
  /\ counters' = EmptyMap
  /\ gauges' = EmptyMap
  /\ inits' = EmptyMap
  /\ log' = Replaced
  /\ Goto(t, "Reset_unlock")
  /\ UNCHANGED <<histograms, heap, locks, frame, world>>

ResetBody(t) ==
  /\ pc[t] = "Reset_body"
  /\ counters' = EmptyMap
  /\ gauges' = EmptyMap
  /\ histograms' = EmptyMap
  /\ inits' = EmptyMap
  /\ log' = Replaced
  /\ Goto(t, "Reset_unlock")
  /\ UNCHANGED <<heap, locks, frame, world>>

\* The deferred unlocks, last deferred first: hm, gm, cm.
ResetUnlockHm(t) ==
  /\ pc[t] = "Reset_unlock"
  /\ hm' = hm \ {t}
  /\ Goto(t, "Reset_ungm")
  /\ UNCHANGED <<registry, heap, cm, gm, rw, frame, log, world>>

ResetUnlockGm(t) ==
  /\ pc[t] = "Reset_ungm"
  /\ gm' = gm \ {t}
  /\ Goto(t, "Reset_uncm")
  /\ UNCHANGED <<registry, heap, cm, hm, rw, frame, log, world>>

ResetUnlockCm(t) ==
  /\ pc[t] = "Reset_uncm"
  /\ cm' = cm \ {t}
  /\ Return(t, [op |-> "Reset"])
  /\ UNCHANGED <<registry, heap, gm, hm, rw, frame, world>>

ResetSteps(t) ==
  \/ ResetLockCm(t)
  \/ ResetLockGm(t)
  \/ ResetLockHm(t)
  \/ ResetBody(t)
  \/ ResetUnlockHm(t)
  \/ ResetUnlockGm(t)
  \/ ResetUnlockCm(t)

----------------------------------------------------------------------------
\* Histogram.merge and Histogram.valueAt, called from Gauges.

RwFree(h) == rw[h].w = {} /\ rw[h].r = {}

mergeLock(t) ==
  /\ pc[t] = "merge_lock"
  /\ RwFree(frame[t].h)
  /\ rw' = [rw EXCEPT ![frame[t].h].w = {t}]
  /\ Goto(t, "merge_body")
  /\ UNCHANGED <<registry, heap, cm, gm, hm, frame, log, world>>

\* merge taking the current slice alone, h.m = h.hist.Current.
mergeBody_CurrentOnly(t) ==
  /\ pc[t] = "merge_body"
  /\ heap' = [heap EXCEPT ![frame[t].h].m = heap[frame[t].h].hist.Current,
                          ![frame[t].h].hasM = TRUE]
  /\ Goto(t, "merge_unlock")
  /\ UNCHANGED <<registry, locks, frame, log, world>>

\* h.m = h.hist.Merge()
mergeBody(t) ==
  /\ pc[t] = "merge_body"
  /\ heap' = [heap EXCEPT ![frame[t].h].m = HdrMerge(heap[frame[t].h].hist),
                          ![frame[t].h].hasM = TRUE]
  /\ Goto(t, "merge_unlock")
  /\ UNCHANGED <<registry, locks, frame, log, world>>

mergeUnlock(t) ==
  /\ pc[t] = "merge_unlock"
  /\ rw' = [rw EXCEPT ![frame[t].h].w = @ \ {t}]
  /\ Goto(t, "Gauges_inits")
  /\ UNCHANGED <<registry, heap, cm, gm, hm, frame, log, world>>

valueAtLock(t) ==
  /\ pc[t] = "valueAt_lock"
  /\ rw[frame[t].h].w = {}
  /\ rw' = [rw EXCEPT ![frame[t].h].r = @ \cup {t}]
  /\ Goto(t, "valueAt_body")
  /\ UNCHANGED <<registry, heap, cm, gm, hm, frame, log, world>>

\* if h.m == nil { return 0 }; return float64(h.m.ValueAtQuantile(q))
valueAtBody(t) ==
  /\ pc[t] = "valueAt_body"
  /\ frame' = [frame EXCEPT ![t].g =
                 MapPut(@, frame[t].n, Eval(gauges[frame[t].n], runtime, msg, heap))]
  /\ Goto(t, "valueAt_unlock")
  /\ UNCHANGED <<registry, heap, locks, log, world>>

valueAtUnlock(t) ==
  /\ pc[t] = "valueAt_unlock"
  /\ rw' = [rw EXCEPT ![frame[t].h].r = @ \ {t}]
  /\ Goto(t, "Gauges_evals")
  /\ UNCHANGED <<registry, heap, cm, gm, hm, frame, log, world>>

----------------------------------------------------------------------------
\* Gauges.  The frame holds the keys and names the two range loops have
\* still to visit (Go visits a map in any order), the map g being built and,
\* per batch key, how often the call has invoked its initializer.

CallGauges(t) ==
  /\ Enter(t, "Gauges_gm",
           [op |-> "Gauges", todoI |-> {}, todoG |-> {}, ran |-> EmptyMap,
            g |-> EmptyMap, h |-> 0, n |-> <<"", "">>, hp |-> <<>>])
  /\ UNCHANGED <<registry, heap, locks, log, world>>

GaugesLockGm(t) ==
  /\ pc[t] = "Gauges_gm"
  /\ gm = {}
  /\ gm' = {t}
  /\ Goto(t, "Gauges_hm")
  /\ UNCHANGED <<registry, heap, cm, hm, rw, frame, log, world>>

\* Gauges as the variant without batch initializers has it: none is run.
GaugesLockHm_NoInits(t) ==
  /\ pc[t] = "Gauges_hm"
  /\ hm = {}
  /\ hm' = {t}
  /\ frame' = [frame EXCEPT ![t].todoI = {}]
  /\ Goto(t, "Gauges_inits")
  /\ UNCHANGED <<registry, heap, cm, gm, rw, log, world>>

\* Gauges holding gm alone: no hm.Lock().
GaugesLockHm_GmOnly(t) ==
  /\ pc[t] = "Gauges_hm"
  /\ frame' = [frame EXCEPT ![t].todoI = DOMAIN inits]
  /\ Goto(t, "Gauges_inits")
  /\ UNCHANGED <<registry, heap, locks, log, world>>

\* hm.Lock(), and the range over inits begins.
GaugesLockHm(t) ==
  /\ pc[t] = "Gauges_hm"
  /\ hm = {}
  /\ hm' = {t}
  /\ frame' = [frame EXCEPT ![t].todoI = DOMAIN inits]
  /\ Goto(t, "Gauges_inits")
  /\ UNCHANGED <<registry, heap, cm, gm, rw, log, world>>

\* init() of a memStatGauges initializer: runtime.ReadMemStats(&msg.stats).
GaugesInitMsg(t) ==
  /\ pc[t] = "Gauges_inits"
  /\ \E key \in frame[t].todoI :
       /\ inits[key].kind = "msg"
       /\ msg' = [msg EXCEPT ![inits[key].a].stats = runtime]
       /\ frame' = [frame EXCEPT ![t].todoI = @ \ {key},
                                 ![t].ran = MapPut(@, key, MapGet(@, key) + 1)]
  /\ UNCHANGED <<registry, heap, locks, pc, log, runtime, test>>

\* init() of a histogram's initializer: hist.merge.
GaugesInitMerge(t) ==
  /\ pc[t] = "Gauges_inits"
  /\ \E key \in frame[t].todoI :
       /\ inits[key].kind = "merge"
       /\ frame' = [frame EXCEPT ![t].todoI = @ \ {key},
                                 ![t].ran = MapPut(@, key, MapGet(@, key) + 1),
                                 ![t].h = inits[key].a]
  /\ Goto(t, "merge_lock")
  /\ UNCHANGED <<registry, heap, locks, log, world>>

GaugesInitsDone(t) ==
  /\ pc[t] = "Gauges_inits"
  /\ frame[t].todoI = {}
  /\ frame' = [frame EXCEPT ![t].todoG = DOMAIN gauges]
  /\ Goto(t, "Gauges_evals")
  /\ UNCHANGED <<registry, heap, locks, log, world>>

\* g[n] = f() for a closure that takes no lock.
GaugesEval(t) ==
  /\ pc[t] = "Gauges_evals"
  /\ \E n \in frame[t].todoG :
       /\ gauges[n].kind # "valueAt"
       /\ frame' = [frame EXCEPT ![t].todoG = @ \ {n},
                                 ![t].g = MapPut(@, n, Eval(gauges[n], runtime, msg, heap))]
  /\ UNCHANGED <<registry, heap, locks, pc, log, world>>

\* g[n] = f() for hist.valueAt(q).
GaugesEvalValueAt(t) ==
  /\ pc[t] = "Gauges_evals"
  /\ \E n \in frame[t].todoG :
       /\ gauges[n].kind = "valueAt"
       /\ frame' = [frame EXCEPT ![t].todoG = @ \ {n}, ![t].n = n,
                                 ![t].h = gauges[n].a]
  /\ Goto(t, "valueAt_lock")
  /\ UNCHANGED <<registry, heap, locks, log, world>>

GaugesEvalsDone(t) ==
  /\ pc[t] = "Gauges_evals"
  /\ frame[t].todoG = {}
  /\ Goto(t, "Gauges_unlock")
  /\ UNCHANGED <<registry, heap, locks, frame, log, world>>

\* The deferred hm.Unlock().  hp keeps the histograms as they are when the
\* call lets go of them.
GaugesUnlockHm(t) ==
  /\ pc[t] = "Gauges_unlock"
  /\ hm' = hm \ {t}
  /\ frame' = [frame EXCEPT ![t].hp = heap]
  /\ Goto(t, "Gauges_ungm")
  /\ UNCHANGED <<registry, heap, cm, gm, rw, log, world>>

\* The caller gets g; the entry also keeps what the call did and the world
\* it ran in: the initializer invocations, the runtime, the memStatGauges
\* and the histograms.
GaugesUnlockGm(t) ==
  /\ pc[t] = "Gauges_ungm"
  /\ gm' = gm \ {t}
  /\ Return(t, [op |-> "Gauges", ret |-> frame[t].g, ref |-> "copy",
                ran |-> frame[t].ran,
                rt |-> runtime, ms |-> msg, hp |-> frame[t].hp])
  /\ UNCHANGED <<registry, heap, cm, hm, rw, frame, world>>

GaugesSteps(t) ==
  \/ GaugesLockGm(t)
  \/ GaugesLockHm(t)
  \/ GaugesInitsDone(t)
  \/ GaugesEvalsDone(t)
  \/ GaugesUnlockHm(t)
  \/ GaugesUnlockGm(t)

GaugesMsgSteps(t) == GaugesInitMsg(t)

GaugesHistSteps(t) ==
  \/ GaugesInitMerge(t)
  \/ mergeLock(t)
  \/ mergeBody(t)
  \/ mergeUnlock(t)
  \/ GaugesEvalValueAt(t)
  \/ valueAtLock(t)
  \/ valueAtBody(t)
  \/ valueAtUnlock(t)

----------------------------------------------------------------------------
\* NewHistogram.

CallNewHistogram(t, name, minValue, maxValue) ==
  /\ Enter(t, "NewHistogram_lock",
           [op |-> "NewHistogram", name |-> name, minValue |-> minValue,
            maxValue |-> maxValue, hist |-> 0, k |-> 1,
            g |-> <<"", "">>, key |-> "", init |-> MergeInit(0),
            f |-> ValueAtFn(0, 0),
            pre |-> <<histograms, gauges, inits>>])
  /\ UNCHANGED <<registry, heap, locks, log, world>>

NewHistogramLock(t) ==
  /\ pc[t] = "NewHistogram_lock"
  /\ hm = {}
  /\ hm' = {t}
  /\ Goto(t, "NewHistogram_check")
  /\ UNCHANGED <<registry, heap, cm, gm, rw, frame, log, world>>

\* NewHistogram that replaces a histogram of the same name.
NewHistogramCheck_NoPanic(t) ==
  /\ pc[t] = "NewHistogram_check"
  /\ heap' = Append(heap, [hist |-> HdrNewWindowedHistogram(
                                      WindowLen, frame[t].minValue, frame[t].maxValue),
                           m |-> EmptyBag, hasM |-> FALSE, rot |-> 0])
  /\ rw' = Append(rw, [w |-> {}, r |-> {}])
  /\ histograms' = MapPut(histograms, frame[t].name, Len(heap) + 1)
  /\ frame' = [frame EXCEPT ![t].hist = Len(heap) + 1]
  /\ Goto(t, "NewHistogram_gauge")
  /\ UNCHANGED <<counters, gauges, inits, cm, gm, hm, log, world>>

\* NewHistogram with a window one slice longer,
\* hdr.NewWindowedHistogram(6, ...).
NewHistogramCheck_LongWindow(t) ==
  /\ pc[t] = "NewHistogram_check"
  /\ IF frame[t].name \in DOMAIN histograms
     THEN /\ Goto(t, "NewHistogram_panic")
          /\ UNCHANGED <<registry, heap, locks, frame, log, world>>
     ELSE /\ heap' = Append(heap, [hist |-> HdrNewWindowedHistogram(
                                      WindowLen + 1, frame[t].minValue, frame[t].maxValue),
                                   m |-> EmptyBag, hasM |-> FALSE, rot |-> 0])
          /\ rw' = Append(rw, [w |-> {}, r |-> {}])
          /\ histograms' = MapPut(histograms, frame[t].name, Len(heap) + 1)
          /\ frame' = [frame EXCEPT ![t].hist = Len(heap) + 1]
          /\ Goto(t, "NewHistogram_gauge")
          /\ UNCHANGED <<counters, gauges, inits, cm, gm, hm, log, world>>

\* The name check, and either the panic or the new Histogram object.
\* rot is a history field, not in the Go struct: the number of times the
\* object has been rotated.
NewHistogramCheck(t) ==
  /\ pc[t] = "NewHistogram_check"
  /\ IF frame[t].name \in DOMAIN histograms
     THEN /\ Goto(t, "NewHistogram_panic")
          /\ UNCHANGED <<registry, heap, locks, frame, log, world>>
     ELSE /\ heap' = Append(heap, [hist |-> HdrNewWindowedHistogram(
                                      WindowLen, frame[t].minValue, frame[t].maxValue),
                                   m |-> EmptyBag, hasM |-> FALSE, rot |-> 0])
          /\ rw' = Append(rw, [w |-> {}, r |-> {}])
          /\ histograms' = MapPut(histograms, frame[t].name, Len(heap) + 1)
          /\ frame' = [frame EXCEPT ![t].hist = Len(heap) + 1]
          /\ Goto(t, "NewHistogram_gauge")
          /\ UNCHANGED <<counters, gauges, inits, cm, gm, hm, log, world>>

\* The six gauges with their quantiles in reverse: name+".P50" gets
\* hist.valueAt(99.9), ..., name+".P999" gets hist.valueAt(50).
NewHistogramGauge_Reversed(t) ==
  /\ pc[t] = "NewHistogram_gauge"
  /\ frame[t].k <= Len(QuantileGauges)
  /\ frame' = [frame EXCEPT
       ![t].g = GaugeName(frame[t].name, QuantileGauges[frame[t].k].sfx),
       ![t].key = frame[t].name,
       ![t].init = MergeInit(frame[t].hist),
       ![t].f = ValueAtFn(frame[t].hist,
                          QuantileGauges[Len(QuantileGauges) + 1 - frame[t].k].q)]
  /\ Goto(t, "SetBatchFunc_lock")
  /\ UNCHANGED <<registry, heap, locks, log, world>>

\* Gauge(name+".Pnn").SetBatchFunc(name, hist.merge, hist.valueAt(q)), the
\* k-th of the six.
NewHistogramGauge(t) ==
  /\ pc[t] = "NewHistogram_gauge"
  /\ frame[t].k <= Len(QuantileGauges)
  /\ frame' = [frame EXCEPT
       ![t].g = GaugeName(frame[t].name, QuantileGauges[frame[t].k].sfx),
       ![t].key = frame[t].name,
       ![t].init = MergeInit(frame[t].hist),
       ![t].f = ValueAtFn(frame[t].hist, QuantileGauges[frame[t].k].q)]
  /\ Goto(t, "SetBatchFunc_lock")
  /\ UNCHANGED <<registry, heap, locks, log, world>>

\* return hist, and the deferred hm.Unlock().
NewHistogramReturn(t) ==
  /\ pc[t] = "NewHistogram_gauge"
  /\ frame[t].k > Len(QuantileGauges)
  /\ hm' = hm \ {t}
  /\ Return(t, [op |-> "NewHistogram", name |-> frame[t].name, panic |-> FALSE,
                ret |-> frame[t].hist, pre |-> frame[t].pre,
                post |-> <<histograms, gauges, inits>>])
  /\ UNCHANGED <<registry, heap, cm, gm, rw, frame, world>>

\* panic(name + " already exists"): the deferred hm.Unlock() runs, and the
\* caller is left with the panic.
NewHistogramPanic(t) ==
  /\ pc[t] = "NewHistogram_panic"
  /\ hm' = hm \ {t}
  /\ Return(t, [op |-> "NewHistogram", name |-> frame[t].name, panic |-> TRUE,
                ret |-> 0, pre |-> frame[t].pre,
                post |-> <<histograms, gauges, inits>>])
  /\ UNCHANGED <<registry, heap, cm, gm, rw, frame, world>>

NewHistogramSteps(t) ==
  \/ NewHistogramLock(t)
  \/ NewHistogramCheck(t)
  \/ NewHistogramGauge(t)
  \/ NewHistogramReturn(t)
  \/ NewHistogramPanic(t)

----------------------------------------------------------------------------
\* Histogram.RecordValue.

\* The handles the callers hold: what NewHistogram has returned.
Handles ==
  UNION {{log[t][i].ret : i \in {x \in 1 .. Len(log[t]) :
                                   /\ log[t][x].op = "NewHistogram"
                                   /\ ~log[t][x].panic}} : t \in DOMAIN log}

CallRecordValue(t, h, v) ==
  /\ Enter(t, "RecordValue_lock",
           [op |-> "RecordValue", h |-> h, v |-> v, err |-> FALSE,
            pre |-> heap[h]])
  /\ UNCHANGED <<registry, heap, locks, log, world>>

RecordValueLock(t) ==
  /\ pc[t] = "RecordValue_lock"
  /\ RwFree(frame[t].h)
  /\ rw' = [rw EXCEPT ![frame[t].h].w = {t}]
  /\ frame' = [frame EXCEPT ![t].pre = heap[frame[t].h]]
  /\ Goto(t, "RecordValue_body")
  /\ UNCHANGED <<registry, heap, cm, gm, hm, log, world>>

\* RecordValue as the variant without an error result has it.
RecordValueBody_NoError(t) ==
  /\ pc[t] = "RecordValue_body"
  /\ heap' = [heap EXCEPT ![frame[t].h].hist = HdrRecordValue(@, frame[t].v)]
  /\ frame' = [frame EXCEPT ![t].err = FALSE]
  /\ Goto(t, "RecordValue_unlock")
  /\ UNCHANGED <<registry, locks, log, world>>

\* return h.hist.Current.RecordValue(v)
RecordValueBody(t) ==
  /\ pc[t] = "RecordValue_body"
  /\ heap' = [heap EXCEPT ![frame[t].h].hist = HdrRecordValue(@, frame[t].v)]
  /\ frame' = [frame EXCEPT ![t].err = ~HdrInRange(heap[frame[t].h].hist, frame[t].v)]
  /\ Goto(t, "RecordValue_unlock")
  /\ UNCHANGED <<registry, locks, log, world>>

RecordValueUnlock(t) ==
  /\ pc[t] = "RecordValue_unlock"
  /\ rw' = [rw EXCEPT ![frame[t].h].w = @ \ {t}]
  /\ Return(t, [op |-> "RecordValue", h |-> frame[t].h, v |-> frame[t].v,
                err |-> frame[t].err, pre |-> frame[t].pre,
                post |-> heap[frame[t].h]])
  /\ UNCHANGED <<registry, heap, cm, gm, hm, frame, world>>

RecordValueSteps(t) ==
  \/ RecordValueLock(t)
  \/ RecordValueBody(t)
  \/ RecordValueUnlock(t)

----------------------------------------------------------------------------
\* The rotator goroutine and Histogram.rotate.

\* The ticker fires.
RotatorTick ==
  /\ Enter(Rotator, "Rotator_lock", [op |-> "tick", todo |-> {}, h |-> 0, rot0 |-> <<>>])
  /\ UNCHANGED <<registry, heap, locks, log, world>>

\* The rotator as the variant without the histogram mutex has it: the loop
\* over the histograms runs under gm.
RotatorLock_Gm ==
  /\ pc[Rotator] = "Rotator_lock"
  /\ gm = {}
  /\ gm' = {Rotator}
  /\ frame' = [frame EXCEPT ![Rotator].todo = DOMAIN histograms,
                            ![Rotator].rot0 = [h \in DOMAIN heap |-> heap[h].rot]]
  /\ Goto(Rotator, "Rotator_range")
  /\ UNCHANGED <<registry, heap, cm, hm, rw, log, world>>

\* rot0 remembers, for the length of the tick, how often each histogram had
\* been rotated when the tick began.
RotatorLock ==
  /\ pc[Rotator] = "Rotator_lock"
  /\ hm = {}
  /\ hm' = {Rotator}
  /\ frame' = [frame EXCEPT ![Rotator].todo = DOMAIN histograms,
                            ![Rotator].rot0 = [h \in DOMAIN heap |-> heap[h].rot]]
  /\ Goto(Rotator, "Rotator_range")
  /\ UNCHANGED <<registry, heap, cm, gm, rw, log, world>>

RotatorRange ==
  /\ pc[Rotator] = "Rotator_range"
  /\ \E n \in frame[Rotator].todo :
       frame' = [frame EXCEPT ![Rotator].todo = @ \ {n},
                              ![Rotator].h = histograms[n]]
  /\ Goto(Rotator, "rotate_lock")
  /\ UNCHANGED <<registry, heap, locks, log, world>>

rotateLock ==
  /\ pc[Rotator] = "rotate_lock"
  /\ RwFree(frame[Rotator].h)
  /\ rw' = [rw EXCEPT ![frame[Rotator].h].w = {Rotator}]
  /\ Goto(Rotator, "rotate_body")
  /\ UNCHANGED <<registry, heap, cm, gm, hm, frame, log, world>>

\* rotate that pushes the current slice onto the ring and goes on recording
\* into it.
rotateBody_KeepCurrent ==
  /\ pc[Rotator] = "rotate_body"
  /\ heap' = [heap EXCEPT ![frame[Rotator].h].hist =
                            [HdrRotate(@) EXCEPT !.Current = heap[frame[Rotator].h].hist.Current],
                          ![frame[Rotator].h].rot = @ + 1]
  /\ Goto(Rotator, "rotate_unlock")
  /\ UNCHANGED <<registry, locks, frame, log, world>>

rotateBody ==
  /\ pc[Rotator] = "rotate_body"
  /\ heap' = [heap EXCEPT ![frame[Rotator].h].hist = HdrRotate(@),
                          ![frame[Rotator].h].rot = @ + 1]
  /\ Goto(Rotator, "rotate_unlock")
  /\ UNCHANGED <<registry, locks, frame, log, world>>

rotateUnlock ==
  /\ pc[Rotator] = "rotate_unlock"
  /\ rw' = [rw EXCEPT ![frame[Rotator].h].w = @ \ {Rotator}]
  /\ Goto(Rotator, "Rotator_range")
  /\ UNCHANGED <<registry, heap, cm, gm, hm, frame, log, world>>

RotatorUnlock ==
  /\ pc[Rotator] = "Rotator_range"
  /\ frame[Rotator].todo = {}
  /\ hm' = hm \ {Rotator}
  /\ frame' = [frame EXCEPT ![Rotator].rot0 = <<>>]
  /\ Return(Rotator, [op |-> "tick"])
  /\ UNCHANGED <<registry, heap, cm, gm, rw, world>>

RotatorSteps ==
  \/ RotatorLock
  \/ RotatorRange
  \/ rotateLock
  \/ rotateBody
  \/ rotateUnlock
  \/ RotatorUnlock

\* The Go runtime collects garbage: MemStats.NumGC grows.  The runtime
\* holds still while a Gauges call is running, so that the call has one
\* snapshot time.
RuntimeGC(maxGC) ==
  /\ runtime.NumGC < maxGC
  /\ \A t \in DOMAIN pc : frame[t].op # "Gauges" \/ pc[t] = "idle"
  /\ runtime' = [runtime EXCEPT !.NumGC = @ + 1]
  /\ UNCHANGED <<registry, heap, locks, pc, frame, log, msg, test>>

----------------------------------------------------------------------------
\* The state after package initialisation, for the given callers.

InitRegistry ==
  /\ counters = EmptyMap
  /\ gauges = EmptyMap
  /\ inits = EmptyMap
  /\ histograms = EmptyMap
  /\ heap = <<>>
  /\ rw = <<>>
  /\ cm = {} /\ gm = {} /\ hm = {}

InitThreads(T) ==
  /\ pc = [t \in T |-> "idle"]
  /\ frame = [t \in T |-> [op |-> "none"]]
  /\ log = [t \in T |-> <<>>]

\* Two memStatGauges objects, as two collectors would allocate them.
InitWorld ==
  /\ runtime = [NumGC |-> 0]
  /\ msg = <<[stats |-> [NumGC |-> 0]], [stats |-> [NumGC |-> 0]]>>

----------------------------------------------------------------------------
\* SpecWriters: BenchmarkCounterAddN's shape.  NumWriters goroutines each
\* call Counter(c).AddN(k) CallsPerWriter times; when all have finished a
\* reader calls Counters().

Writers == 1 .. NumWriters
Reader == NumWriters + 1

WritersDone == \A w \in Writers : pc[w] = "idle" /\ Len(log[w]) = CallsPerWriter

InitWriters ==
  /\ \E c \in CounterNames, k \in 1 .. MaxDelta, p \in 0 .. MaxPrior,
        fresh \in BOOLEAN :
       /\ test = [mode |-> "writers", c |-> c, k |-> k,
                  prior |-> IF fresh THEN 0 ELSE p]
       /\ counters = IF fresh THEN EmptyMap ELSE [n \in {c} |-> p]
  /\ gauges = EmptyMap
  /\ inits = EmptyMap
  /\ histograms = EmptyMap
  /\ heap = <<>>
  /\ rw = <<>>
  /\ cm = {} /\ gm = {} /\ hm = {}
  /\ InitThreads(Writers \cup {Reader})
  /\ InitWorld

WriterCall(t) ==
  /\ Len(log[t]) < CallsPerWriter
  /\ CallAddN(t, test.c, test.k)

ReaderCall ==
  /\ WritersDone
  /\ log[Reader] = <<>>
  /\ CallCounters(Reader)

NextWriters ==
  \/ \E t \in Writers : WriterCall(t)
  \/ ReaderCall
  \/ \E t \in Writers \cup {Reader} : CounterSteps(t)

SpecWriters == InitWriters /\ [][NextWriters]_vars

\* C1: no lost updates.  The snapshot the reader takes once every writer
\* has finished holds prior + NumWriters * CallsPerWriter * k for the
\* counter, whenever that sum fits the counter's width.
WritersTotal == test.prior + NumWriters * CallsPerWriter * test.k

NoLostUpdates ==
  (test.mode = "writers" /\ log[Reader] # <<>> /\ WritersTotal <= UintMax)
    => LET s == log[Reader][1].ret
       IN  test.c \in DOMAIN s /\ s[test.c] = WritersTotal

\* The reader has its snapshot, of a counter that had a prior value.
NoLostUpdatesWitness ==
  /\ test.mode = "writers"
  /\ log[Reader] # <<>>
  /\ test.prior > 0
  /\ WritersTotal <= UintMax
  /\ log[Reader][1].ret[test.c] = WritersTotal

----------------------------------------------------------------------------
\* SpecCounter: one caller making any MaxCalls calls of Add, AddN and
\* Counters, with deltas up to the largest uint64.

Caller == Rotator + 1

Deltas == {0, 1, 10, UintMax}

InitCounter ==
  /\ InitRegistry
  /\ InitThreads({Caller})
  /\ InitWorld
  /\ test = [mode |-> "explore"]

MayCall(t) == Len(log[t]) < MaxCalls

NextCounter ==
  \/ \E c \in CounterNames : MayCall(Caller) /\ CallAdd(Caller, c)
  \/ \E c \in CounterNames, d \in Deltas : MayCall(Caller) /\ CallAddN(Caller, c, d)
  \/ MayCall(Caller) /\ CallCounters(Caller)
  \/ CounterSteps(Caller)

SpecCounter == InitCounter /\ [][NextCounter]_vars

\* The deltas the calls i+1 .. j-1 of a log add to counter c.
RECURSIVE SumDeltas(_, _, _, _)
SumDeltas(l, c, i, j) ==
  IF i >= j THEN 0
  ELSE (IF l[i].op = "Add" /\ l[i].c = c THEN 1
        ELSE IF l[i].op = "AddN" /\ l[i].c = c THEN l[i].delta
        ELSE 0) + SumDeltas(l, c, i + 1, j)

Snapshots(l) == {i \in 1 .. Len(l) : l[i].op = "Counters"}

OnlyAdds(l, i, j) == \A x \in (i + 1) .. (j - 1) : l[x].op \in {"Add", "AddN"}

\* C10: counter additivity.  Between two snapshots of one caller with only
\* Add and AddN calls in between, every counter grows by the sum of the
\* deltas added to it (Add counting 1, an absent counter counting 0), in
\* uint64 arithmetic; a counter is present exactly if it was present or
\* has been added to.
CounterAdditivity ==
  \A t \in DOMAIN log :
    \A i, j \in Snapshots(log[t]) :
      (i < j /\ OnlyAdds(log[t], i, j)) =>
        LET s0 == log[t][i].ret
            s1 == log[t][j].ret
            added == {log[t][x].c : x \in (i + 1) .. (j - 1)}
        IN  /\ DOMAIN s1 = (DOMAIN s0) \cup added
            /\ \A c \in DOMAIN s1 :
                 s1[c] = (MapGet(s0, c) + SumDeltas(log[t], c, i + 1, j)) % Modulus

\* Add() then AddN(10) on a fresh counter, then Counters(): 11.
CounterAdditivityWitness ==
  /\ Len(log[Caller]) = 4
  /\ log[Caller][1].op = "Counters" /\ "whee" \notin DOMAIN log[Caller][1].ret
  /\ log[Caller][2] = [op |-> "Add", c |-> "whee"]
  /\ log[Caller][3] = [op |-> "AddN", c |-> "whee", delta |-> 10]
  /\ log[Caller][4].op = "Counters" /\ log[Caller][4].ret["whee"] = 11

\* C9, as claimed: a later snapshot of a caller never holds less for a
\* counter than an earlier one (no Reset in between), and never a negative
\* value.
CountersNeverDecrease ==
  \A t \in DOMAIN log :
    \A i, j \in Snapshots(log[t]) :
      (i < j /\ OnlyAdds(log[t], i, j)) =>
        \A c \in DOMAIN log[t][i].ret :
          /\ c \in DOMAIN log[t][j].ret
          /\ log[t][j].ret[c] >= log[t][i].ret[c]
          /\ log[t][i].ret[c] >= 0

----------------------------------------------------------------------------
\* What a caller's log says about the registry.

Installs(e) == e.op \in {"Set", "SetFunc", "SetBatchFunc"}

QuantileNames(name) ==
  {GaugeName(name, QuantileGauges[k].sfx) : k \in DOMAIN QuantileGauges}

Created(e) == e.op = "NewHistogram" /\ ~e.panic

\* The call e gives gauge g a new evaluator, or removes it.
Touches(e, g) ==
  \/ Installs(e) /\ e.g = g
  \/ e.op = "Reset"
  \/ Created(e) /\ g \in QuantileNames(e.name)

Max(S) == CHOOSE x \in S : \A y \in S : y <= x

\* The last call before the j-th that touches g (0: none).
LastTouch(l, g, j) == Max({0} \cup {i \in 1 .. (j - 1) : Touches(l[i], g)})

LastReset(l, j) == Max({0} \cup {i \in 1 .. (j - 1) : l[i].op = "Reset"})

\* The batch keys registered before the j-th call and since the last Reset.
KeysRegistered(l, j) ==
  {l[i].key : i \in {x \in (LastReset(l, j) + 1) .. (j - 1) : l[x].op = "SetBatchFunc"}}
  \cup {l[i].name : i \in {x \in (LastReset(l, j) + 1) .. (j - 1) : Created(l[x])}}

GaugesCalls(l) == {j \in 1 .. Len(l) : l[j].op = "Gauges"}

----------------------------------------------------------------------------
\* SpecGauge: one caller making any MaxGaugeCalls calls of Set, SetFunc,
\* SetBatchFunc (as runtime/gc.go calls it), NewHistogram and Gauges, while
\* the runtime collects garbage.

GaugeNames == {GaugeName("whee", ""), GaugeName("heyo", "P50")}
GaugeValues == {1, 2}
BatchKeys == {"Mem", "heyo"}
MsgObjs == {1, 2}
\* What the caller's SetFunc closure adds to the live NumGC.
LiveBase == 100

InitGauge ==
  /\ InitRegistry
  /\ InitThreads({Caller})
  /\ InitWorld
  /\ test = [mode |-> "explore"]

MayCallGauge == Len(log[Caller]) < MaxGaugeCalls

\* The message objects are interchangeable, so the caller takes them in
\* order: object o once every object before it has been registered.
MayUseObj(o) ==
  \A p \in MsgObjs : p < o =>
    \E i \in 1 .. Len(log[Caller]) :
      log[Caller][i].op = "SetBatchFunc" /\ log[Caller][i].init = MsgInit(p)

\* Set stores its value without looking at it, so the values are
\* interchangeable and the caller takes them in order: value v once every
\* value before it has been set.
MayUseValue(v) ==
  \A p \in GaugeValues : p < v =>
    \E i \in 1 .. Len(log[Caller]) :
      log[Caller][i].op = "Set" /\ log[Caller][i].f = ConstFn(p)

NextGauge ==
  \/ \E g \in GaugeNames, v \in GaugeValues :
       MayCallGauge /\ MayUseValue(v) /\ CallSet(Caller, g, v)
  \/ \E g \in GaugeNames : MayCallGauge /\ CallSetFunc(Caller, g, LiveFn(LiveBase))
  \/ \E g \in GaugeNames, key \in BatchKeys, o \in MsgObjs :
       MayCallGauge /\ MayUseObj(o)
         /\ CallSetBatchFunc(Caller, g, key, MsgInit(o), StatFn(o))
  \/ MayCallGauge /\ CallNewHistogram(Caller, "heyo", 1, HistMax)
  \/ MayCallGauge /\ CallGauges(Caller)
  \/ RuntimeGC(MaxGC)
  \/ SetSteps(Caller)
  \/ SetBatchFuncSteps(Caller)
  \/ NewHistogramSteps(Caller)
  \/ GaugesSteps(Caller)
  \/ GaugesEval(Caller)
  \/ GaugesMsgSteps(Caller)
  \/ GaugesHistSteps(Caller)

SpecGauge == InitGauge /\ [][NextGauge]_vars

InInitPhase(t) ==
  pc[t] \in {"Gauges_inits", "merge_lock", "merge_body", "merge_unlock"}

InEvalPhase(t) ==
  pc[t] \in {"Gauges_evals", "valueAt_lock", "valueAt_body", "valueAt_unlock",
             "Gauges_unlock", "Gauges_ungm"}

\* C2: batch initializer dedup.  A Gauges call invokes the initializer of
\* every registered batch key exactly once, however many gauges were
\* registered under the key, and no initializer of any other key; and while
\* the call is still invoking initializers it has evaluated no gauge.
BatchInitOnce ==
  /\ \A t \in DOMAIN log : \A j \in GaugesCalls(log[t]) :
       /\ DOMAIN log[t][j].ran = KeysRegistered(log[t], j)
       /\ \A k \in DOMAIN log[t][j].ran : log[t][j].ran[k] = 1
  /\ \A t \in DOMAIN pc :
       /\ InInitPhase(t) =>
            /\ frame[t].g = EmptyMap
            /\ \A k \in DOMAIN frame[t].ran : frame[t].ran[k] = 1
       /\ InEvalPhase(t) =>
            /\ frame[t].todoI = {}
            /\ DOMAIN frame[t].ran = DOMAIN inits
            /\ \A k \in DOMAIN inits : frame[t].ran[k] = 1

\* A snapshot of seven gauges, six of them under the key "heyo" and one
\* under "Mem", each key's initializer invoked once.
BatchInitOnceWitness ==
  \E j \in GaugesCalls(log[Caller]) :
    /\ log[Caller][j].ran = [k \in {"heyo", "Mem"} |-> 1]
    /\ DOMAIN log[Caller][j].ret =
         QuantileNames("heyo") \cup {GaugeName("whee", "")}
    /\ \E i \in 1 .. (j - 1) :
         log[Caller][i].op = "SetBatchFunc" /\ log[Caller][i].key = "Mem"

\* C3: a snapshot reflects the most recently installed evaluator.  For a
\* gauge whose last touching call was a Set, SetFunc or SetBatchFunc, the
\* snapshot holds what that call's evaluator returns at snapshot time: v for
\* Set(v), the live value for SetFunc, the memStatGauges field for
\* SetBatchFunc.
GaugeLastEvaluator ==
  \A t \in DOMAIN log : \A j \in GaugesCalls(log[t]) :
    \A g \in GaugeNames :
      LET i == LastTouch(log[t], g, j)
          e == log[t][j]
      IN  (i > 0 /\ Installs(log[t][i])) =>
            /\ g \in DOMAIN e.ret
            /\ e.ret[g] = Eval(log[t][i].f, e.rt, e.ms, e.hp)
            /\ log[t][i].op = "Set" => e.ret[g] = log[t][i].f.a

\* Set(1), then SetFunc on the same gauge, a garbage collection, and a
\* snapshot that holds the closure's live value.
GaugeLastEvaluatorWitness ==
  /\ Len(log[Caller]) = 3
  /\ log[Caller][1].op = "Set" /\ log[Caller][1].g = GaugeName("whee", "")
  /\ log[Caller][2].op = "SetFunc" /\ log[Caller][2].g = GaugeName("whee", "")
  /\ log[Caller][3].op = "Gauges"
  /\ log[Caller][3].rt.NumGC = 1
  /\ log[Caller][3].ret[GaugeName("whee", "")] = LiveBase + 1

----------------------------------------------------------------------------
\* SpecRegistry: one caller making any MaxRegistryCalls calls that register
\* something (AddN, Set, SetBatchFunc, NewHistogram), Reset, or take a
\* snapshot (Counters, Gauges).

InitRegistrySpec ==
  /\ InitRegistry
  /\ InitThreads({Caller})
  /\ InitWorld
  /\ test = [mode |-> "explore"]

MayCallRegistry == Len(log[Caller]) < MaxRegistryCalls

NextRegistry ==
  \/ MayCallRegistry /\ CallAddN(Caller, "whee", 1)
  \/ MayCallRegistry /\ CallSet(Caller, GaugeName("whee", ""), 1)
  \/ MayCallRegistry /\ CallSetBatchFunc(Caller, GaugeName("Mem.Alloc", ""), "Mem",
                                         MsgInit(1), StatFn(1))
  \/ MayCallRegistry /\ CallNewHistogram(Caller, "heyo", 1, HistMax)
  \/ MayCallRegistry /\ CallReset(Caller)
  \/ MayCallRegistry /\ CallCounters(Caller)
  \/ MayCallRegistry /\ CallGauges(Caller)
  \/ CounterSteps(Caller)
  \/ SetLock(Caller) \/ SetStore(Caller) \/ SetUnlock(Caller)
  \/ SetBatchFuncSteps(Caller)
  \/ NewHistogramSteps(Caller)
  \/ ResetSteps(Caller)
  \/ GaugesSteps(Caller)
  \/ GaugesEval(Caller)
  \/ GaugesMsgSteps(Caller)
  \/ GaugesHistSteps(Caller)

SpecRegistry == InitRegistrySpec /\ [][NextRegistry]_vars

NoResetIn(l, i, j) == \A x \in (i + 1) .. (j - 1) : l[x].op # "Reset"

\* A thread that is not inside a Reset that has already cleared the maps.
NotResetting(t) ==
  pc[t] \notin {"Reset_unlock", "Reset_ungm", "Reset_uncm"}

\* C4: the six derived gauges.  Once NewHistogram(H) has returned, and
\* until the next Reset, every Gauges snapshot holds H.P50, H.P75, H.P90,
\* H.P95, H.P99 and H.P999, these being all its names that start with H, in
\* one map with the caller's own gauges; and H names the returned histogram
\* in the histogram namespace.
QuantileGaugesPresent ==
  \A t \in DOMAIN log : \A i \in 1 .. Len(log[t]) :
    Created(log[t][i]) =>
      /\ \A j \in GaugesCalls(log[t]) :
           (i < j /\ NoResetIn(log[t], i, j)) =>
             /\ QuantileNames(log[t][i].name) \subseteq DOMAIN log[t][j].ret
             /\ {n \in DOMAIN log[t][j].ret : n[1] = log[t][i].name}
                  = QuantileNames(log[t][i].name)
             /\ Cardinality(QuantileNames(log[t][i].name)) = 6
      /\ (NoResetIn(log[t], i, Len(log[t]) + 1) /\ NotResetting(t)) =>
           /\ log[t][i].name \in DOMAIN histograms
           /\ histograms[log[t][i].name] = log[t][i].ret

\* A snapshot with the six gauges of "heyo" beside the caller's "whee".
QuantileGaugesPresentWitness ==
  \E j \in GaugesCalls(log[Caller]) :
    /\ DOMAIN log[Caller][j].ret = QuantileNames("heyo") \cup {GaugeName("whee", "")}
    /\ \E i \in 1 .. (j - 1) : Created(log[Caller][i])
    /\ "heyo" \in DOMAIN histograms

\* C6: a duplicate histogram name.  NewHistogram panics exactly if the name
\* is in the histogram namespace; the panicking call leaves the histogram,
\* gauge and initializer maps as they were; a returned call leaves no lock
\* held; and right after a Reset the name can be created again.
DuplicateHistogramPanics ==
  /\ \A t \in DOMAIN log : \A i \in 1 .. Len(log[t]) :
       log[t][i].op = "NewHistogram" =>
         /\ log[t][i].panic <=> (log[t][i].name \in DOMAIN log[t][i].pre[1])
         /\ log[t][i].panic => log[t][i].post = log[t][i].pre
         /\ (i > 1 /\ log[t][i - 1].op = "Reset") => ~log[t][i].panic
  /\ \A t \in DOMAIN pc : pc[t] = "idle" => t \notin (cm \cup gm \cup hm)

\* NewHistogram("heyo") twice, the second one panicking, then Reset and
\* NewHistogram("heyo") once more, which returns a new histogram.
DuplicateHistogramPanicsWitness ==
  /\ Len(log[Caller]) = 4
  /\ Created(log[Caller][1])
  /\ log[Caller][2].op = "NewHistogram" /\ log[Caller][2].panic
  /\ log[Caller][2].name = log[Caller][1].name
  /\ log[Caller][3].op = "Reset"
  /\ Created(log[Caller][4]) /\ log[Caller][4].name = log[Caller][1].name
  /\ log[Caller][4].ret # log[Caller][1].ret
  /\ hm = {}

Registers(e) == e.op \in {"Add", "AddN", "Set", "SetFunc", "SetBatchFunc", "NewHistogram"}

\* The caller has reset the registry and registered nothing since.
CleanSince(l, j) ==
  /\ LastReset(l, j) > 0
  /\ \A x \in (LastReset(l, j) + 1) .. (j - 1) : ~Registers(l[x])

\* C8: Reset clears everything.  After a Reset with no registration since,
\* Counters returns an empty map, Gauges returns an empty map and invokes no
\* initializer, and the four maps are empty.
ResetClears ==
  \A t \in DOMAIN log :
    /\ \A j \in 1 .. Len(log[t]) :
         CleanSince(log[t], j) =>
           /\ log[t][j].op = "Counters" => log[t][j].ret = EmptyMap
           /\ log[t][j].op = "Gauges" =>
                log[t][j].ret = EmptyMap /\ log[t][j].ran = EmptyMap
    /\ (CleanSince(log[t], Len(log[t]) + 1) /\ pc[t] = "idle") =>
         /\ counters = EmptyMap
         /\ gauges = EmptyMap
         /\ histograms = EmptyMap
         /\ inits = EmptyMap

\* A batch gauge and a histogram are registered, the registry is reset, and
\* the snapshot that follows is empty and invokes nothing.
ResetClearsWitness ==
  /\ Len(log[Caller]) = 4
  /\ log[Caller][1].op = "SetBatchFunc"
  /\ Created(log[Caller][2])
  /\ log[Caller][3].op = "Reset"
  /\ log[Caller][4].op = "Gauges"
  /\ log[Caller][4].ret = EmptyMap
  /\ log[Caller][4].ran = EmptyMap

----------------------------------------------------------------------------
\* TestHistogram: Reset, NewHistogram("heyo", 1, 1000, 3), RecordValue(i)
\* i times for i from 100 down to 1, Gauges.  The test keeps the result of
\* its latest call in log and its own variables pos, i, j, h, gauges in
\* test; after a call it takes one step of bookkeeping (TestConsume).

TestFrom == 100
TestMaxValue == 1000

InitTest ==
  test = [mode |-> "TestHistogram", pos |-> "Reset", i |-> TestFrom, j |-> 0,
          h |-> 0, gauges |-> EmptyMap]

TestCall ==
  /\ test.mode = "TestHistogram"
  /\ log[Caller] = <<>>
  /\ \/ test.pos = "Reset" /\ CallReset(Caller)
     \/ test.pos = "NewHistogram" /\ CallNewHistogram(Caller, "heyo", 1, TestMaxValue)
     \/ test.pos = "RecordValue" /\ CallRecordValue(Caller, test.h, test.i)
     \/ test.pos = "Gauges" /\ CallGauges(Caller)

TestConsume ==
  /\ test.mode = "TestHistogram"
  /\ pc[Caller] = "idle"
  /\ log[Caller] # <<>>
  /\ log' = [log EXCEPT ![Caller] = <<>>]
  /\ test' =
       CASE test.pos = "Reset" -> [test EXCEPT !.pos = "NewHistogram"]
         [] test.pos = "NewHistogram" ->
              [test EXCEPT !.pos = "RecordValue", !.h = log[Caller][1].ret]
         [] test.pos = "RecordValue" ->
              IF test.j + 1 < test.i THEN [test EXCEPT !.j = @ + 1]
              ELSE IF test.i > 1 THEN [test EXCEPT !.i = @ - 1, !.j = 0]
              ELSE [test EXCEPT !.i = 0, !.j = 0, !.pos = "Gauges"]
         [] test.pos = "Gauges" ->
              [test EXCEPT !.pos = "done", !.gauges = log[Caller][1].ret]
  /\ UNCHANGED <<registry, heap, locks, pc, frame, runtime, msg>>

----------------------------------------------------------------------------
\* SpecHist: either TestHistogram, or one caller making any MaxHistCalls
\* calls of NewHistogram, RecordValue (on a handle it holds, with the lowest
\* and the highest trackable value) and Gauges while the rotator ticks up to
\* MaxTicks times.

EdgeValues == {1, HistMax}

InitHist ==
  /\ InitRegistry
  /\ InitThreads({Rotator, Caller})
  /\ InitWorld
  /\ \/ test = [mode |-> "explore"]
     \/ InitTest

MayCallHist == test.mode = "explore" /\ Len(log[Caller]) < MaxHistCalls

MayTick == test.mode = "explore" /\ Len(log[Rotator]) < MaxTicks

NextHist ==
  \/ MayCallHist /\ CallNewHistogram(Caller, "heyo", 1, HistMax)
  \/ \E h \in Handles, v \in EdgeValues : MayCallHist /\ CallRecordValue(Caller, h, v)
  \/ MayCallHist /\ CallGauges(Caller)
  \/ MayTick /\ RotatorTick
  \/ TestCall
  \/ TestConsume
  \/ NewHistogramSteps(Caller)
  \/ SetBatchFuncSteps(Caller)
  \/ RecordValueSteps(Caller)
  \/ GaugesSteps(Caller)
  \/ GaugesHistSteps(Caller)
  \/ ResetSteps(Caller)
  \/ RotatorSteps

SpecHist == InitHist /\ [][NextHist]_vars

\* The values a windowed histogram holds and how often, counted slice by
\* slice.
Recorded(w) ==
  BagToSet(w.Current) \cup UNION {BagToSet(w.Window[k]) : k \in DOMAIN w.Window}

RECURSIVE WindowCount(_, _, _)
WindowCount(w, v, k) ==
  IF k = 0 THEN 0
  ELSE (IF v \in BagToSet(w.Window[k]) THEN CopiesIn(v, w.Window[k]) ELSE 0)
       + WindowCount(w, v, k - 1)

CountOf(w, v) ==
  (IF v \in BagToSet(w.Current) THEN CopiesIn(v, w.Current) ELSE 0)
  + WindowCount(w, v, Len(w.Window))

RECURSIVE SumOver(_, _, _)
SumOver(w, S, bound) ==
  IF S = {} THEN 0
  ELSE LET v == CHOOSE x \in S : TRUE
       IN  (IF v <= bound THEN CountOf(w, v) ELSE 0) + SumOver(w, S \ {v}, bound)

\* The number of recorded values that are at most v, and of all.
CumCount(w, v) == SumOver(w, Recorded(w), v)
TotalCount(w) == SumOver(w, Recorded(w), w.maxValue)

\* r is the smallest recorded value whose cumulative count is at least q
\* thousandths of the total (0 when nothing is recorded).
IsQuantile(w, q, r) ==
  IF Recorded(w) = {} THEN r = 0
  ELSE /\ r \in Recorded(w)
       /\ CumCount(w, r) * 1000 >= q * TotalCount(w)
       /\ \A v \in Recorded(w) : v < r => CumCount(w, v) * 1000 < q * TotalCount(w)

TestExpected ==
  [n \in QuantileNames("heyo") |->
     CASE n[2] = "P50" -> 71 [] n[2] = "P75" -> 87 [] n[2] = "P90" -> 95
       [] n[2] = "P95" -> 98 [] n[2] = "P99" -> 100 [] n[2] = "P999" -> 100]

\* C5: quantile extraction.  In every Gauges snapshot, the quantile gauge
\* for q of a histogram created since the last Reset holds the smallest
\* recorded value whose cumulative count, over the current slice and all
\* retained window slices, is at least q/100 of the total count; and
\* TestHistogram's snapshot holds 71, 87, 95, 98, 100, 100.
QuantileExtraction ==
  /\ test.mode = "explore" =>
       \A j \in GaugesCalls(log[Caller]) : \A i \in 1 .. (j - 1) :
         (Created(log[Caller][i]) /\ NoResetIn(log[Caller], i, j)) =>
           \A k \in DOMAIN QuantileGauges :
             IsQuantile(log[Caller][j].hp[log[Caller][i].ret].hist,
                        QuantileGauges[k].q,
                        log[Caller][j].ret[GaugeName(log[Caller][i].name,
                                                     QuantileGauges[k].sfx)])
  /\ (test.mode = "TestHistogram" /\ test.pos = "done") =>
       test.gauges = TestExpected

\* A snapshot over two values, one in a window slice and one in the current
\* slice: P50 is the smaller, P999 the larger.
QuantileExtractionWitness ==
  /\ test.mode = "explore"
  /\ \E j \in GaugesCalls(log[Caller]) :
       /\ Created(log[Caller][1])
       /\ Len(log[Caller][j].hp[log[Caller][1].ret].hist.Window) = 1
       /\ BagCardinality(log[Caller][j].hp[log[Caller][1].ret].hist.Window[1]) = 1
       /\ BagCardinality(log[Caller][j].hp[log[Caller][1].ret].hist.Current) = 1
       /\ log[Caller][j].ret[GaugeName("heyo", "P50")] = 1
       /\ log[Caller][j].ret[GaugeName("heyo", "P999")] = 2

\* TestHistogram has run to its end.
TestHistogramDone ==
  /\ test.mode = "TestHistogram"
  /\ test.pos = "done"
  /\ test.gauges = TestExpected

----------------------------------------------------------------------------
\* SpecRecord: one caller making any MaxRecordCalls calls of NewHistogram,
\* RecordValue (on any handle it holds, with values in and out of range)
\* and Reset while the rotator ticks up to MaxTicks times.

HistValues == 0 .. (HistMax + 1)

InitRecord ==
  /\ InitRegistry
  /\ InitThreads({Rotator, Caller})
  /\ InitWorld
  /\ test = [mode |-> "explore"]

MayCallRecord == Len(log[Caller]) < MaxRecordCalls

NextRecord ==
  \/ MayCallRecord /\ CallNewHistogram(Caller, "heyo", 1, HistMax)
  \/ \E h \in Handles, v \in HistValues : MayCallRecord /\ CallRecordValue(Caller, h, v)
  \/ MayCallRecord /\ CallReset(Caller)
  \/ MayTick /\ RotatorTick
  \/ NewHistogramSteps(Caller)
  \/ SetBatchFuncSteps(Caller)
  \/ RecordValueSteps(Caller)
  \/ ResetSteps(Caller)
  \/ RotatorSteps

SpecRecord == InitRecord /\ [][NextRecord]_vars

\* C7: out-of-range record.  RecordValue(v) returns an error exactly if v
\* is outside [minValue, maxValue]; with an error the histogram object is
\* as it was when the call locked it (current slice, window slices, merged
\* snapshot, and so every quantile of the merged distribution); without
\* one, the current slice holds one more v and nothing else differs.
RecordValueRange ==
  \A t \in DOMAIN log : \A i \in 1 .. Len(log[t]) :
    log[t][i].op = "RecordValue" =>
      LET e == log[t][i]
          lo == e.pre.hist.minValue
          hi == e.pre.hist.maxValue
      IN  /\ e.err <=> (e.v < lo \/ e.v > hi)
          /\ e.err =>
               /\ e.post = e.pre
               /\ \A k \in DOMAIN QuantileGauges :
                    HdrValueAtQuantile(HdrMerge(e.post.hist), QuantileGauges[k].q)
                      = HdrValueAtQuantile(HdrMerge(e.pre.hist), QuantileGauges[k].q)
          /\ ~e.err =>
               /\ CountOf(e.post.hist, e.v) = CountOf(e.pre.hist, e.v) + 1
               /\ BagCardinality(e.post.hist.Current)
                    = BagCardinality(e.pre.hist.Current) + 1
               /\ \A v \in lo .. hi :
                    v # e.v => CountOf(e.post.hist, v) = CountOf(e.pre.hist, v)
               /\ e.post.hist.Window = e.pre.hist.Window
               /\ e.post.m = e.pre.m /\ e.post.hasM = e.pre.hasM

\* An accepted value, a rotation, then a value above the range and a value
\* below it, both refused, the histogram keeping its one value.
RecordValueRangeWitness ==
  /\ Len(log[Caller]) = 4
  /\ Created(log[Caller][1])
  /\ log[Caller][2].op = "RecordValue" /\ ~log[Caller][2].err
  /\ log[Caller][3].op = "RecordValue" /\ log[Caller][3].err
  /\ log[Caller][3].v = HistMax + 1
  /\ Len(log[Caller][3].pre.hist.Window) = 1
  /\ log[Caller][4].op = "RecordValue" /\ log[Caller][4].err
  /\ log[Caller][4].v = 0
  /\ TotalCount(log[Caller][4].post.hist) = 1

----------------------------------------------------------------------------
\* SpecWindow: one caller making any MaxWindowCalls calls of NewHistogram
\* and RecordValue (of the value 1) and ending with a Gauges call, while the
\* rotator ticks up to one time more than the window is long.

MaxRotations == WindowLen + 1

InitWindow ==
  /\ InitRegistry
  /\ InitThreads({Rotator, Caller})
  /\ InitWorld
  /\ test = [mode |-> "explore"]

MayCallWindow ==
  /\ Len(log[Caller]) < MaxWindowCalls
  /\ GaugesCalls(log[Caller]) = {}

NextWindow ==
  \/ MayCallWindow /\ CallNewHistogram(Caller, "heyo", 1, HistMax)
  \/ \E h \in Handles : MayCallWindow /\ CallRecordValue(Caller, h, 1)
  \/ MayCallWindow /\ CallGauges(Caller)
  \/ Len(log[Rotator]) < MaxRotations /\ RotatorTick
  \/ NewHistogramSteps(Caller)
  \/ SetBatchFuncSteps(Caller)
  \/ RecordValueSteps(Caller)
  \/ GaugesSteps(Caller)
  \/ GaugesHistSteps(Caller)
  \/ RotatorSteps

SpecWindow == InitWindow /\ [][NextWindow]_vars

\* The calls among the first j - 1 of l that recorded v into h and were
\* followed by at most WindowLen rotations of h when h had been rotated
\* rot times.
Retained(l, j, h, v, rot) ==
  {k \in 1 .. (j - 1) :
     /\ l[k].op = "RecordValue" /\ l[k].h = h /\ l[k].v = v /\ ~l[k].err
     /\ rot - l[k].post.rot <= WindowLen}

\* C11: aging out of the window.  In every Gauges snapshot the merged
\* distribution of a registered histogram counts exactly the accepted
\* values that were followed by at most 5 rotations of the histogram: a
\* value followed by more than 5 no longer contributes, and when no
\* accepted value is that recent the merged distribution is empty and the
\* six quantile gauges are 0.
AgingOut ==
  \A j \in GaugesCalls(log[Caller]) : \A i \in 1 .. (j - 1) :
    Created(log[Caller][i]) =>
      LET h == log[Caller][i].ret
          o == log[Caller][j].hp[h]
      IN  /\ o.hasM
          /\ \A v \in 1 .. HistMax :
               CopiesIn(v, o.m) = Cardinality(Retained(log[Caller], j, h, v, o.rot))
          /\ (\A v \in 1 .. HistMax : Retained(log[Caller], j, h, v, o.rot) = {}) =>
               /\ o.m = EmptyBag
               /\ \A n \in QuantileNames(log[Caller][i].name) :
                    log[Caller][j].ret[n] = 0

\* A value is accepted, the histogram is rotated six times, and the
\* snapshot that follows has an empty merged distribution and six zeros.
AgingOutWitness ==
  /\ Len(log[Caller]) = 3
  /\ Created(log[Caller][1])
  /\ log[Caller][2].op = "RecordValue" /\ ~log[Caller][2].err
  /\ log[Caller][3].op = "Gauges"
  /\ log[Caller][3].hp[log[Caller][1].ret].rot - log[Caller][2].post.rot = WindowLen + 1
  /\ log[Caller][3].hp[log[Caller][1].ret].m = EmptyBag
  /\ \A n \in QuantileNames("heyo") : log[Caller][3].ret[n] = 0

\* The same after five rotations: the value is still in the window.
AgingOutRetained ==
  /\ Len(log[Caller]) = 3
  /\ Created(log[Caller][1])
  /\ log[Caller][2].op = "RecordValue" /\ ~log[Caller][2].err
  /\ log[Caller][3].op = "Gauges"
  /\ log[Caller][3].hp[log[Caller][1].ret].rot - log[Caller][2].post.rot = WindowLen
  /\ BagCardinality(log[Caller][3].hp[log[Caller][1].ret].m) = 1

----------------------------------------------------------------------------
\* SpecConcurrent: a caller making any MaxConcCalls calls of NewHistogram
\* and ending with a Gauges call, a second goroutine recording up to MaxRecords values into
\* any histogram created so far, and the rotator ticking up to MaxTicks
\* times while the snapshot is being taken, all interleaved.

Recorder == Caller + 1

InitConcurrent ==
  /\ InitRegistry
  /\ InitThreads({Rotator, Caller, Recorder})
  /\ InitWorld
  /\ test = [mode |-> "explore"]

MayCallConcurrent ==
  /\ Len(log[Caller]) < MaxConcCalls
  /\ GaugesCalls(log[Caller]) = {}

\* The recorder's values never go down: the lowest trackable value some
\* times, then the highest.
MayRecord(v) ==
  /\ Len(log[Recorder]) < MaxRecords
  /\ \A i \in 1 .. Len(log[Recorder]) : log[Recorder][i].v <= v

\* The ticker fires while t's Gauges call is running.
MayTickDuring(t) ==
  /\ Len(log[Rotator]) < MaxTicks
  /\ frame[t].op = "Gauges" /\ pc[t] # "idle"

NextConcurrent ==
  \/ MayCallConcurrent /\ CallNewHistogram(Caller, "heyo", 1, HistMax)
  \/ MayCallConcurrent /\ CallGauges(Caller)
  \/ \E h \in Handles, v \in EdgeValues : MayRecord(v) /\ CallRecordValue(Recorder, h, v)
  \/ MayTickDuring(Caller) /\ RotatorTick
  \/ NewHistogramSteps(Caller)
  \/ SetBatchFuncSteps(Caller)
  \/ GaugesSteps(Caller)
  \/ GaugesHistSteps(Caller)
  \/ RecordValueSteps(Recorder)
  \/ RotatorSteps

SpecConcurrent == InitConcurrent /\ [][NextConcurrent]_vars

\* The names of the histograms of the specifications.
HistogramNames == {"heyo"}

\* C12: quantiles are non-decreasing in q within one snapshot.  In every
\* Gauges result that holds a histogram's quantile gauges, each of the six
\* is at most the next one, whatever RecordValue calls and rotations ran
\* while the snapshot was taken.
QuantilesMonotone ==
  \A t \in DOMAIN log : \A j \in GaugesCalls(log[t]) :
    \A H \in HistogramNames :
      QuantileNames(H) \subseteq DOMAIN log[t][j].ret =>
        \A k \in 1 .. (Len(QuantileGauges) - 1) :
          log[t][j].ret[GaugeName(H, QuantileGauges[k].sfx)]
            <= log[t][j].ret[GaugeName(H, QuantileGauges[k + 1].sfx)]

\* A snapshot taken while the recorder was at work: when the snapshot let
\* go of the histogram, it held a value more than the merged distribution
\* the six gauges were read from.
QuantilesMonotoneWitness ==
  \E j \in GaugesCalls(log[Caller]) :
    /\ Created(log[Caller][1])
    /\ log[Caller][j].ret[GaugeName("heyo", "P50")] > 0
    /\ BagCardinality(HdrMerge(log[Caller][j].hp[log[Caller][1].ret].hist))
         > BagCardinality(log[Caller][j].hp[log[Caller][1].ret].m)

\* A snapshot over two values with P50 below P999.
QuantilesMonotoneStrict ==
  \E j \in GaugesCalls(log[Caller]) :
    /\ Created(log[Caller][1])
    /\ log[Caller][j].ret[GaugeName("heyo", "P50")]
         < log[Caller][j].ret[GaugeName("heyo", "P999")]

----------------------------------------------------------------------------
\* C13, checked under SpecGauge.

\* The call e registers an initializer for key, if key has none.
RegistersKey(e, key) ==
  \/ e.op = "SetBatchFunc" /\ e.key = key
  \/ Created(e) /\ e.name = key

InitOf(e) == IF e.op = "SetBatchFunc" THEN e.init ELSE MergeInit(e.ret)

\* The first call before the j-th, and since the last Reset, that registers
\* an initializer for key.
FirstRegistration(l, key, j) ==
  CHOOSE i \in (LastReset(l, j) + 1) .. (j - 1) :
    /\ RegistersKey(l[i], key)
    /\ \A x \in (LastReset(l, j) + 1) .. (i - 1) : ~RegistersKey(l[x], key)

\* C13: first initializer wins.  Between calls the initializer map holds,
\* for every key registered since the last Reset, the initializer of the
\* first call that registered the key, whatever later SetBatchFunc calls
\* passed for it, while the gauge map holds the evaluator of the last
\* SetBatchFunc; and every Gauges call runs that first initializer (a
\* memStatGauges initializer leaves its object with the runtime's statistics
\* of the snapshot), also when Set or SetFunc has overwritten the gauges of
\* the batch.
FirstInitWins ==
  /\ pc[Caller] = "idle" =>
       /\ DOMAIN inits = KeysRegistered(log[Caller], Len(log[Caller]) + 1)
       /\ \A key \in DOMAIN inits :
            inits[key] = InitOf(log[Caller][FirstRegistration(
                                  log[Caller], key, Len(log[Caller]) + 1)])
       /\ (log[Caller] # <<>> /\ log[Caller][Len(log[Caller])].op = "SetBatchFunc") =>
            gauges[log[Caller][Len(log[Caller])].g] = log[Caller][Len(log[Caller])].f
  /\ \A j \in GaugesCalls(log[Caller]) :
       \A key \in KeysRegistered(log[Caller], j) :
         LET first == InitOf(log[Caller][FirstRegistration(log[Caller], key, j)])
         IN  /\ key \in DOMAIN log[Caller][j].ran
             /\ log[Caller][j].ran[key] = 1
             /\ first.kind = "msg" =>
                  log[Caller][j].ms[first.a].stats = log[Caller][j].rt

\* Two SetBatchFunc calls under the key "Mem" with the initializers of two
\* memStatGauges objects, a garbage collection, and a snapshot: the first
\* object has the new statistics, the second was never initialised and its
\* gauge reports the stale 0.
FirstInitWinsWitness ==
  /\ Len(log[Caller]) = 3
  /\ log[Caller][1].op = "SetBatchFunc" /\ log[Caller][1].key = "Mem"
  /\ log[Caller][1].init = MsgInit(1)
  /\ log[Caller][2].op = "SetBatchFunc" /\ log[Caller][2].key = "Mem"
  /\ log[Caller][2].init = MsgInit(2)
  /\ log[Caller][2].g # log[Caller][1].g
  /\ log[Caller][3].op = "Gauges"
  /\ log[Caller][3].rt.NumGC = 1
  /\ log[Caller][3].ms[1].stats.NumGC = 1
  /\ log[Caller][3].ms[2].stats.NumGC = 0
  /\ log[Caller][3].ret[log[Caller][2].g] = 0

\* A batch gauge overwritten by Set: the key's initializer still runs.
FirstInitWinsOverwritten ==
  /\ Len(log[Caller]) = 3
  /\ log[Caller][1].op = "SetBatchFunc" /\ log[Caller][1].init = MsgInit(1)
  /\ log[Caller][2].op = "Set" /\ log[Caller][2].g = log[Caller][1].g
  /\ log[Caller][3].op = "Gauges"
  /\ log[Caller][3].rt.NumGC = 1
  /\ log[Caller][3].ms[1].stats.NumGC = 1
  /\ log[Caller][3].ran[log[Caller][1].key] = 1

----------------------------------------------------------------------------
\* C14, checked under SpecRegistry.

IsSnapshot(e) == e.op \in {"Counters", "Gauges"}

----------------------------------------------------------------------------
\* SpecLocks: two goroutines, each making up to MaxLockCalls calls, and the
\* rotator, all interleaved.  One registers (AddN, NewHistogram), the
\* other reads and resets (Gauges, Reset, RecordValue) or creates the
\* histogram itself.

Peer == Caller + 1

InitLocks ==
  /\ InitRegistry
  /\ InitThreads({Rotator, Caller, Peer})
  /\ InitWorld
  /\ test = [mode |-> "explore"]

MayCallLocks(t) == Len(log[t]) < MaxLockCalls

NextLocks ==
  \/ MayCallLocks(Caller) /\ CallAddN(Caller, "whee", 1)
  \/ MayCallLocks(Caller) /\ CallNewHistogram(Caller, "heyo", 1, HistMax)
  \/ MayCallLocks(Peer) /\ CallGauges(Peer)
  \/ MayCallLocks(Peer) /\ CallReset(Peer)
  \/ \E h \in Handles : MayCallLocks(Peer) /\ CallRecordValue(Peer, h, 1)
  \/ MayCallLocks(Peer) /\ CallNewHistogram(Peer, "heyo", 1, HistMax)
  \/ Len(log[Rotator]) < MaxTicks /\ RotatorTick
  \/ AddNLock(Caller) \/ AddNLoad(Caller) \/ AddNStore(Caller) \/ AddNUnlock(Caller)
  \/ NewHistogramSteps(Caller)
  \/ SetBatchFuncSteps(Caller)
  \/ GaugesSteps(Peer)
  \/ GaugesHistSteps(Peer)
  \/ ResetSteps(Peer)
  \/ RecordValueSteps(Peer)
  \/ NewHistogramSteps(Peer)
  \/ SetBatchFuncSteps(Peer)
  \/ RotatorSteps

SpecLocks == InitLocks /\ [][NextLocks]_vars

\* The goroutines that hold the lock t is about to acquire, t apart ({}
\* when t is not at a Lock or RLock call).
Blockers(t) ==
  (CASE pc[t] \in {"AddN_lock", "Counters_lock", "Reset_cm"} -> cm
     [] pc[t] \in {"Set_lock", "SetFunc_lock", "SetBatchFunc_lock",
                   "Gauges_gm", "Reset_gm"} -> gm
     [] pc[t] \in {"Gauges_hm", "NewHistogram_lock", "Reset_hm",
                   "Rotator_lock"} -> hm
     [] pc[t] \in {"RecordValue_lock", "merge_lock", "rotate_lock"} ->
          rw[frame[t].h].w \cup rw[frame[t].h].r
     [] pc[t] = "valueAt_lock" -> rw[frame[t].h].w
     [] OTHER -> {}) \ {t}

\* A set of goroutines each waiting for a lock another of the set holds.
Deadlocked(S) == S # {} /\ \A t \in S : Blockers(t) \cap S # {}

\* C15: deadlock freedom.  In no reachable state is there a set of
\* goroutines each of which waits for a lock that another of the set
\* holds.
NoLockCycle == \A S \in SUBSET DOMAIN pc : ~Deadlocked(S)

----------------------------------------------------------------------------
\* C16, checked under SpecConcurrent.

\* t's Gauges call is between its first initializer invocation and its last
\* gauge evaluation.
Snapshotting(t) ==
  pc[t] \in {"Gauges_inits", "merge_lock", "merge_body", "merge_unlock",
             "Gauges_evals", "valueAt_lock", "valueAt_body", "valueAt_unlock"}

\* The step rotates a histogram.
Rotates == \E h \in DOMAIN heap : heap'[h].rot # heap[h].rot

\* C16: rotation never interleaves with a gauge snapshot.  No step rotates
\* a histogram while a Gauges call is between its first initializer
\* invocation and its last gauge evaluation, and while a call is there the
\* rotator is not inside its loop over the histograms; so no rotation
\* separates a histogram's merge from the evaluation of its six gauges.
NoRotationInSnapshot ==
  /\ [](\A t \in DOMAIN pc :
          Snapshotting(t) =>
            pc[Rotator] \notin {"Rotator_range", "rotate_lock", "rotate_body",
                                "rotate_unlock"})
  /\ [][Rotates => \A t \in DOMAIN pc : ~Snapshotting(t)]_vars

\* The ticker fired while the snapshot was being taken: the snapshot saw
\* the histogram unrotated, and the rotation followed it.
NoRotationInSnapshotWitness ==
  /\ Len(log[Caller]) = 2
  /\ Created(log[Caller][1])
  /\ log[Caller][2].op = "Gauges"
  /\ log[Caller][2].hp[log[Caller][1].ret].rot = 0
  /\ heap[log[Caller][1].ret].rot = 1
  /\ Len(log[Rotator]) = 1

----------------------------------------------------------------------------
\* SpecFresh: one caller making any MaxFreshCalls calls of SetBatchFunc (as
\* runtime/gc.go calls it, under any of the batch keys), NewHistogram and
\* RecordValue, and ending with a Gauges call.

InitFresh ==
  /\ InitRegistry
  /\ InitThreads({Caller})
  /\ InitWorld
  /\ test = [mode |-> "explore"]

MayCallFresh ==
  /\ Len(log[Caller]) < MaxFreshCalls
  /\ GaugesCalls(log[Caller]) = {}

NextFresh ==
  \/ \E key \in BatchKeys :
       MayCallFresh /\ CallSetBatchFunc(Caller, GaugeName("whee", ""), key,
                                        MsgInit(1), StatFn(1))
  \/ MayCallFresh /\ CallNewHistogram(Caller, "heyo", 1, HistMax)
  \/ \E h \in Handles, v \in EdgeValues : MayCallFresh /\ CallRecordValue(Caller, h, v)
  \/ MayCallFresh /\ CallGauges(Caller)
  \/ SetBatchFuncSteps(Caller)
  \/ NewHistogramSteps(Caller)
  \/ RecordValueSteps(Caller)
  \/ GaugesSteps(Caller)
  \/ GaugesEval(Caller)
  \/ GaugesMsgSteps(Caller)
  \/ GaugesHistSteps(Caller)

SpecFresh == InitFresh /\ [][NextFresh]_vars

\* C17: quantile gauges are always fresh.  For every histogram created
\* since the last Reset, every Gauges call has run the histogram's merge,
\* so that the merged distribution the six gauges are read from holds every
\* value of the current slice and the window slices, and each gauge is the
\* quantile of that distribution, whatever was registered before the
\* histogram was created.
QuantileGaugesFresh ==
  \A j \in GaugesCalls(log[Caller]) : \A i \in 1 .. (j - 1) :
    (Created(log[Caller][i]) /\ NoResetIn(log[Caller], i, j)) =>
      LET o == log[Caller][j].hp[log[Caller][i].ret]
      IN  /\ o.hasM
          /\ o.m = HdrMerge(o.hist)
          /\ \A k \in DOMAIN QuantileGauges :
               log[Caller][j].ret[GaugeName(log[Caller][i].name, QuantileGauges[k].sfx)]
                 = HdrValueAtQuantile(HdrMerge(o.hist), QuantileGauges[k].q)

----------------------------------------------------------------------------
\* C18, checked under SpecLocks.

\* The rotator is inside its loop over the histograms.
Iterating ==
  pc[Rotator] \in {"Rotator_range", "rotate_lock", "rotate_body", "rotate_unlock"}

\* Thread t is at a statement that reads or writes the histograms map.
AtHistograms(t) ==
  \/ t = Rotator /\ Iterating
  \/ t # Rotator /\ pc[t] \in {"NewHistogram_check", "Reset_body"}
  \/ t # Rotator /\ Snapshotting(t)

\* The rotations of this tick that are done: the histograms of the map
\* whose names the loop has taken, except the one whose rotate() call has
\* not reached its body's end.
RotatedThisTick ==
  {histograms[n] : n \in DOMAIN histograms \ frame[Rotator].todo}
    \ (IF pc[Rotator] \in {"rotate_lock", "rotate_body"}
       THEN {frame[Rotator].h} ELSE {})

HistogramMapLockedEmpty ==
  /\ pc[Rotator] = "Rotator_range" /\ frame[Rotator].todo = {}
  /\ DOMAIN histograms = {}
  /\ pc[Caller] = "NewHistogram_lock"

----------------------------------------------------------------------------
\* C19, checked under SpecWindow.

\* The caller's accepted RecordValue calls on histogram h that recorded
\* when h had been rotated r times: the returned ones, and the one that has
\* recorded and not yet returned.
AcceptedAt(h, r) ==
  Cardinality({k \in 1 .. Len(log[Caller]) :
                 /\ log[Caller][k].op = "RecordValue" /\ log[Caller][k].h = h
                 /\ ~log[Caller][k].err /\ log[Caller][k].post.rot = r})
    + (IF /\ pc[Caller] = "RecordValue_unlock" /\ frame[Caller].h = h
          /\ ~frame[Caller].err /\ heap[h].rot = r
       THEN 1 ELSE 0)

RECURSIVE AcceptedSince(_, _, _)
AcceptedSince(h, r, a) ==
  IF a < 0 THEN 0
  ELSE (IF r - a < 0 THEN 0 ELSE AcceptedAt(h, r - a)) + AcceptedSince(h, r, a - 1)

\* A step of merge's body.
Merges == \E t \in DOMAIN pc : pc[t] = "merge_body" /\ pc'[t] = "merge_unlock"

\* C19: window ring invariant.  Of every histogram, whatever RecordValue
\* and rotate calls it has seen: the ring holds at most 5 slices (as many
\* as there were rotations, up to 5); the current slice is empty right
\* after rotate's body; the current slice holds as many values as were
\* accepted since the last rotation, the slice pushed a rotations ago as
\* many as were accepted before that rotation and after the one before it,
\* and the merged distribution as many as the two together, which are the
\* values accepted within the last 5 rotations, each counted once; and a
\* step of merge's body leaves the current slice and the ring as they were.
WindowRing ==
  /\ [](\A h \in DOMAIN heap :
          LET w == heap[h].hist
              n == Len(w.Window)
          IN  /\ n <= WindowLen
              /\ n = IF heap[h].rot < WindowLen THEN heap[h].rot ELSE WindowLen
              /\ (pc[Rotator] = "rotate_unlock" /\ frame[Rotator].h = h) =>
                   w.Current = EmptyBag
              /\ BagCardinality(w.Current) = AcceptedAt(h, heap[h].rot)
              /\ \A a \in 1 .. n :
                   BagCardinality(w.Window[n - a + 1]) = AcceptedAt(h, heap[h].rot - a)
              /\ BagCardinality(HdrMerge(w)) = AcceptedSince(h, heap[h].rot, WindowLen))
  /\ [][Merges => \A h \in DOMAIN heap : heap'[h].hist = heap[h].hist]_vars

\* Right after the sixth rotation: one value was accepted before the first
\* rotation and one after it, the ring is full, the current slice is empty
\* and the merged distribution counts the second value only.
WindowRingWitness ==
  /\ Len(log[Caller]) = 3 /\ Created(log[Caller][1])
  /\ log[Caller][2].op = "RecordValue" /\ ~log[Caller][2].err
  /\ log[Caller][3].op = "RecordValue" /\ ~log[Caller][3].err
  /\ log[Caller][2].post.rot = 0 /\ log[Caller][3].post.rot = 1
  /\ pc[Rotator] = "rotate_unlock"
  /\ heap[log[Caller][1].ret].rot = WindowLen + 1
  /\ Len(heap[log[Caller][1].ret].hist.Window) = WindowLen
  /\ heap[log[Caller][1].ret].hist.Current = EmptyBag
  /\ BagCardinality(HdrMerge(heap[log[Caller][1].ret].hist)) = 1

\* A merge has run on a ring that holds a value.
WindowRingMerged ==
  /\ Len(log[Caller]) = 3 /\ Created(log[Caller][1])
  /\ log[Caller][3].op = "Gauges"
  /\ BagCardinality(log[Caller][3].hp[log[Caller][1].ret].m) = 1
  /\ log[Caller][3].hp[log[Caller][1].ret].hist.Current = EmptyBag

----------------------------------------------------------------------------
\* SpecDetach: one caller making any MaxDetachCalls calls of NewHistogram,
\* RecordValue (on any handle it holds, registered or not), Reset, and
\* ending with a Gauges call, while the rotator ticks.

InitDetach ==
  /\ InitRegistry
  /\ InitThreads({Rotator, Caller})
  /\ InitWorld
  /\ test = [mode |-> "explore"]

MayCallDetach ==
  /\ Len(log[Caller]) < MaxDetachCalls
  /\ GaugesCalls(log[Caller]) = {}

NextDetach ==
  \/ MayCallDetach /\ CallNewHistogram(Caller, "heyo", 1, HistMax)
  \/ \E h \in Handles : MayCallDetach /\ CallRecordValue(Caller, h, 1)
  \/ MayCallDetach /\ CallReset(Caller)
  \/ MayCallDetach /\ CallGauges(Caller)
  \/ MayTick /\ RotatorTick
  \/ NewHistogramSteps(Caller)
  \/ SetBatchFuncSteps(Caller)
  \/ RecordValueSteps(Caller)
  \/ ResetSteps(Caller)
  \/ GaugesSteps(Caller)
  \/ GaugesHistSteps(Caller)
  \/ RotatorSteps

SpecDetach == InitDetach /\ [][NextDetach]_vars

\* The handle h was returned by a NewHistogram call that a Reset call of
\* the caller's first j - 1 calls followed.
DetachedBefore(l, j, h) ==
  \E i \in 1 .. (j - 1) : \E r \in (i + 1) .. (j - 1) :
    Created(l[i]) /\ l[i].ret = h /\ l[r].op = "Reset"

\* C20: a histogram handle is detached by Reset.  A RecordValue call on a
\* handle from before a Reset still returns no error for a value in range
\* and records into the histogram the handle points to; once Reset has
\* returned that histogram is rotated no more; and the Gauges call that
\* follows has no quantile gauge when no histogram was created since the
\* last Reset, and otherwise reads the six gauges from a merged
\* distribution that counts the values accepted through the new handle
\* (within the last 5 rotations of the new histogram) and no others.
DetachedByReset ==
  /\ [](/\ \A k \in 1 .. Len(log[Caller]) :
             (/\ log[Caller][k].op = "RecordValue"
              /\ DetachedBefore(log[Caller], k, log[Caller][k].h)) =>
               /\ ~log[Caller][k].err
               /\ log[Caller][k].post.hist.Current
                    = log[Caller][k].pre.hist.Current (+) SetToBag({log[Caller][k].v})
        /\ \A j \in GaugesCalls(log[Caller]) :
             /\ (\A i \in 1 .. (j - 1) :
                   Created(log[Caller][i]) => ~NoResetIn(log[Caller], i, j)) =>
                  \A n \in QuantileNames("heyo") : n \notin DOMAIN log[Caller][j].ret
             /\ \A i \in 1 .. (j - 1) :
                  (Created(log[Caller][i]) /\ NoResetIn(log[Caller], i, j)) =>
                    LET o == log[Caller][j].hp[log[Caller][i].ret]
                    IN  /\ \A v \in 1 .. HistMax :
                             CopiesIn(v, o.m) =
                               Cardinality(Retained(log[Caller], j, log[Caller][i].ret, v, o.rot))
                        /\ \A q \in DOMAIN QuantileGauges :
                             log[Caller][j].ret[GaugeName("heyo", QuantileGauges[q].sfx)]
                               = HdrValueAtQuantile(o.m, QuantileGauges[q].q))
  /\ [][\A h \in DOMAIN heap :
          DetachedBefore(log[Caller], Len(log[Caller]) + 1, h) =>
            heap'[h].rot = heap[h].rot]_vars

\* NewHistogram, Reset, NewHistogram again, a value recorded through the
\* first handle, a rotation of the second histogram only, and a snapshot
\* whose quantile gauges are 0.
DetachedByResetWitness ==
  /\ Len(log[Caller]) = 5
  /\ Created(log[Caller][1]) /\ log[Caller][2].op = "Reset" /\ Created(log[Caller][3])
  /\ log[Caller][4].op = "RecordValue" /\ log[Caller][4].h = log[Caller][1].ret
  /\ ~log[Caller][4].err
  /\ log[Caller][5].op = "Gauges"
  /\ \A n \in QuantileNames("heyo") : log[Caller][5].ret[n] = 0
  /\ heap[log[Caller][1].ret].hist.Current = SetToBag({1})
  /\ heap[log[Caller][1].ret].rot = 0
  /\ heap[log[Caller][3].ret].rot = 1

\* The same with a value recorded through the second handle: the snapshot
\* shows it.
DetachedByResetNew ==
  /\ Len(log[Caller]) = 5
  /\ Created(log[Caller][1]) /\ log[Caller][2].op = "Reset" /\ Created(log[Caller][3])
  /\ log[Caller][4].op = "RecordValue" /\ log[Caller][4].h = log[Caller][3].ret
  /\ log[Caller][5].op = "Gauges"
  /\ \A n \in QuantileNames("heyo") : log[Caller][5].ret[n] = 1

====
